---------------------------- MODULE Spec2Model ----------------------------
(***************************************************************************)
(* Model of the Netlify functions of zoho-desk-api: the session endpoint    *)
(* (generateToken, verifyToken), the session check of the other functions  *)
(* (verifyAuth), the process-wide OAuth access-token cache                 *)
(* (getAccessToken) and the request flow of the handlers that proxy the    *)
(* helpdesk API.                                                           *)
(*                                                                         *)
(* One behaviour is one process serving one function (`handler`, fixed at  *)
(* start, as every function file has its own module-level cache).  Node    *)
(* runs the code single-threaded: an action is the synchronous code that   *)
(* runs between two suspension points (network calls), together with the   *)
(* promise continuations it triggers.                                      *)
(***************************************************************************)
EXTENDS Integers, Sequences, FiniteSets, TLC

VARIABLES
    handler,            \* the function this process serves
    env,                \* process.env: AUTH_SECRET, PORTAL_PASSWORD, AUTH_TTL_HOURS
    now,                \* Date.now(), in ms
    cachedAccessToken,  \* module-level cache: the token, "null" when absent
    accessTokenExpiry,  \* module-level cache: expiry in ms, 0 when absent
    tokenPromise,       \* ticketMessages only: the exchange in flight, or NoPromise
    exchanges,          \* the OAuth exchanges started so far, in start order
    lastResponse,       \* the answer of the exchange that settled last
    req,                \* the calls in progress or finished, one per caller slot
    session,            \* the browser's authToken cookie and the session
                        \* endpoint's last request and answer
    ticket              \* the helpdesk ticket the requests name: its resolution
                        \* text as blocks, in the specifications that follow it

vars == <<handler, env, now, cachedAccessToken, accessTokenExpiry,
          tokenPromise, exchanges, lastResponse, req, session, ticket>>

cacheVars == <<cachedAccessToken, accessTokenExpiry, tokenPromise, exchanges>>

----------------------------------------------------------------------------
(* Bounds *)

NumCallers == 2
Callers == 1..NumCallers

\* The clock values the model visits: the start, the instants around the
\* 60 s margin of a 120 s token and of a 3600 s token issued at 0.
Instants == {0, 59999, 60000, 3540000, 3590000}

\* The clock values of the session checks: the start, and the instants
\* around the expiry of a one-hour session issued at 0.
SessionInstants == {0, 60000, 3599999, 3600000, 3600001}

----------------------------------------------------------------------------
(* Program constants *)

SafetyMarginMs == 60000
DefaultExpiresIn == 3600
MsPerSecond == 1000
NoPromise == 0

Handlers == {"tickets", "ticketHistory", "ticketHistoryPaged",
             "ticketConversations", "ticketThreads", "ticketMessages",
             "layoutFields", "uploadImage", "addTicketResolution",
             "addTicketResolutionSimple"}

\* The session endpoint (the first function of auth.js): it issues and checks
\* the authToken cookie and makes no OAuth or helpdesk call.
SessionEndpoint == "auth"

\* The handlers whose exports.handler starts with `if (!verifyAuth(event))`.
\* src/netlify/functions/ticketHistory.js has no such check.
HasVerifyAuth(h) == h # "ticketHistory"

\* Only ticketMessages keeps the in-flight marker tokenPromise.
SingleFlight(h) == h = "ticketMessages"

\* The two versions of addTicketResolution: after the ticket has been read
\* they send the resolution update, and repeat it after a 401.
ResolutionHandlers == {"addTicketResolution", "addTicketResolutionSimple"}

----------------------------------------------------------------------------
(* JavaScript values *)

\* null, undefined and '' are falsy; an issued token is a non-empty string.
Truthy(tok) == tok \notin {"null", "undefined", ""}

\* The access_token the provider issues in its n-th exchange.
TokenName == <<"T1", "T2", "T3", "T4", "T5", "T6", "T7", "T8">>

----------------------------------------------------------------------------
(* Session check: verifyAuth *)

\* A secret or password is its sequence of characters; <<>> is '' and stands
\* for an unset variable as well.
\* AUTH_SECRET || PORTAL_PASSWORD
SecretOf(e) == IF e.AUTH_SECRET # <<>> THEN e.AUTH_SECRET ELSE e.PORTAL_PASSWORD

\* crypto.createHmac('sha256', secret).update(msg).digest('hex'): a digest is
\* determined by, and determines, the key and the message.
Hmac_KeyIgnored(secret, msg) == << <<>>, msg >>

Hmac(secret, msg) == <<secret, msg>>

Digit == <<"0", "1", "2", "3", "4", "5", "6", "7", "8", "9">>

\* String(n) of a non-negative integer: its decimal digits.
RECURSIVE StringOf(_)
StringOf(n) ==
    IF n < 10 THEN Digit[n + 1]
    ELSE StringOf(n \div 10) \o Digit[(n % 10) + 1]

\* The numbers whose decimal text occurs: the clock values, and the expiries
\* of the tokens issued at them.
Numerals ==
    {0, 1, 24} \cup
    { t + h * 3600000 : t \in Instants \cup SessionInstants, h \in {0, 1, 24} }

DecimalOf == [n \in Numerals |-> StringOf(n)]

NumberOf_GarbageIsZero(s) ==
    IF \E n \in Numerals : DecimalOf[n] = s
    THEN [nan |-> FALSE, inf |-> FALSE, val |-> CHOOSE n \in Numerals : DecimalOf[n] = s]
    ELSE IF s \in {"6e4", "060000"} THEN [nan |-> FALSE, inf |-> FALSE, val |-> 60000]
    ELSE IF s = "-2" THEN [nan |-> FALSE, inf |-> FALSE, val |-> -2]
    ELSE IF s = "Infinity" THEN [nan |-> FALSE, inf |-> TRUE, val |-> 0]
    ELSE [nan |-> FALSE, inf |-> FALSE, val |-> 0]

\* Number(s): the value of a decimal text, 0 for '', the value of the
\* exponent form '6e4', of the padded '060000' and of the signed '-2', Infinity (inf, val unused)
\* for 'Infinity', NaN for a text that is not a numeral.
NumberOf(s) ==
    IF \E n \in Numerals : DecimalOf[n] = s
    THEN [nan |-> FALSE, inf |-> FALSE, val |-> CHOOSE n \in Numerals : DecimalOf[n] = s]
    ELSE IF s = "" THEN [nan |-> FALSE, inf |-> FALSE, val |-> 0]
    ELSE IF s \in {"6e4", "060000"} THEN [nan |-> FALSE, inf |-> FALSE, val |-> 60000]
    ELSE IF s = "-2" THEN [nan |-> FALSE, inf |-> FALSE, val |-> -2]
    ELSE IF s = "Infinity" THEN [nan |-> FALSE, inf |-> TRUE, val |-> 0]
    ELSE [nan |-> TRUE, inf |-> FALSE, val |-> 0]

TimingSafeEqual_NoLengthCheck(a, b) ==
    \A i \in 1..Len(a) : i <= Len(b) /\ a[i] = b[i]

\* timingSafeEqual(a, b): false when the lengths differ, else the comparison
\* of the bytes.
TimingSafeEqual(a, b) ==
    /\ Len(a) = Len(b)
    /\ \A i \in 1..Len(a) : a[i] = b[i]

\* A cookie value is the text split on '.': segs = 0 is no authToken cookie,
\* segs = 1 a text without '.', expStr the first segment, sig the second.
NoCookie == [segs |-> 0, expStr |-> "", sig |-> <<>>]

\* An event without a `headers` object.
NoHeaders == [segs |-> -1, expStr |-> "", sig |-> <<>>]

VerifyAuth(ev, e, t) ==
    LET secret    == SecretOf(e)
        token     == ev.cookie
        noToken   == token.segs <= 0 \/ (token.segs = 1 /\ token.expStr = "")
        noExpStr  == token.expStr = ""
        noSig     == token.segs < 2 \/ token.sig = <<>>
        expiresAt == NumberOf(token.expStr)
    IN  /\ secret # <<>>
        /\ ~noToken
        /\ ~(noExpStr \/ noSig \/ expiresAt.nan
             \/ (~expiresAt.inf /\ expiresAt.val < t))
        /\ TimingSafeEqual(Hmac(secret, token.expStr), token.sig)

\* The cookies a client may present besides the one the session endpoint
\* gave it: none, malformed ones, ones signed with another key, ones that
\* carry the digest made with the configured secret.
Cookies(e) ==
    { NoCookie,
      [segs |-> 1, expStr |-> "", sig |-> <<>>],
      [segs |-> 1, expStr |-> "60000", sig |-> <<>>],
      [segs |-> 2, expStr |-> "60000", sig |-> <<>>],
      [segs |-> 2, expStr |-> "", sig |-> Hmac(SecretOf(e), "")],
      [segs |-> 2, expStr |-> "abc", sig |-> Hmac(<<"k", "0">>, "abc")],
      [segs |-> 2, expStr |-> "abc", sig |-> Hmac(SecretOf(e), "abc")],
      [segs |-> 2, expStr |-> "60000", sig |-> Hmac(<<"k", "0">>, "60000")],
      [segs |-> 3, expStr |-> "3590000", sig |-> Hmac(SecretOf(e), "3590000")],
      [segs |-> 2, expStr |-> "60000", sig |-> Hmac(SecretOf(e), "60000")],
      [segs |-> 2, expStr |-> "3590000", sig |-> Hmac(SecretOf(e), "3590000")] }

Events(e) == [cookie : Cookies(e), method : {"GET", "POST"},
              input : {"ok", "missing", "unparsable"}]

\* The checks a handler makes between verifyAuth and getAccessToken: 0 when
\* the request goes on, else the status it is answered with.
PreCheck(h, ev) ==
    CASE h = "tickets" -> 0
      [] h = "uploadImage" ->
            IF ev.method # "POST" THEN 405
            ELSE IF ev.input = "unparsable" THEN 500
            ELSE IF ev.input = "missing" THEN 400 ELSE 0
      [] h \in {"addTicketResolution", "addTicketResolutionSimple"} ->
            IF ev.method # "POST" THEN 405
            ELSE IF ev.input # "ok" THEN 400 ELSE 0
      [] OTHER -> IF ev.input = "missing" THEN 400 ELSE 0

----------------------------------------------------------------------------
(* The session endpoint *)

DefaultTtlHours == 24
MsPerHour == 60 * 60 * 1000

TtlHours_ZeroKept(e) ==
    LET n == IF e.AUTH_TTL_HOURS = ""
             THEN [nan |-> FALSE, inf |-> FALSE, val |-> DefaultTtlHours]
             ELSE NumberOf(e.AUTH_TTL_HOURS)
    IN  IF ~n.nan /\ ~n.inf /\ n.val >= 0 THEN n.val ELSE DefaultTtlHours

\* Number(AUTH_TTL_HOURS || 24), replaced by 24 unless finite and positive
TtlHours(e) ==
    LET n == IF e.AUTH_TTL_HOURS = ""
             THEN [nan |-> FALSE, inf |-> FALSE, val |-> DefaultTtlHours]
             ELSE NumberOf(e.AUTH_TTL_HOURS)
    IN  IF ~n.nan /\ ~n.inf /\ n.val > 0 THEN n.val ELSE DefaultTtlHours

TokenTtlMs(e) == TtlHours(e) * MsPerHour

\* sign(expiresAt, secret): the digest of String(expiresAt)
Sign(expiresAt, secret) == Hmac(secret, StringOf(expiresAt))

\* sign(expiresAt, secret) of the number verifyToken has parsed:
\* String(Infinity) is 'Infinity'
SignParsed(expiresAt, secret) ==
    IF expiresAt.inf THEN Hmac(secret, "Infinity") ELSE Sign(expiresAt.val, secret)

VerifyToken(token, secret, t) ==
    LET noToken   == token.segs = 0 \/ (token.segs = 1 /\ token.expStr = "")
        noExpStr  == token.expStr = ""
        noSig     == token.segs < 2 \/ token.sig = <<>>
        expiresAt == NumberOf(token.expStr)
    IN  /\ ~noToken
        /\ ~(noExpStr \/ noSig \/ expiresAt.nan
             \/ (~expiresAt.inf /\ expiresAt.val < t))
        /\ TimingSafeEqual(SignParsed(expiresAt, secret), token.sig)

GenerateToken_SignsIssueTime(secret, t, ttl) ==
    [segs |-> 2, expStr |-> StringOf(t + ttl), sig |-> Sign(t, secret)]

\* generateToken(secret) at clock value t: `${expiresAt}.${signature}`
GenerateToken(secret, t, ttl) ==
    [segs |-> 2, expStr |-> StringOf(t + ttl), sig |-> Sign(t + ttl, secret)]

\* The request body: text JSON.parse refuses, or JSON with `password` (an
\* absent body, and JSON without the field, give the password '').
Passwords == { <<>>, <<"p">>, <<"p", "w">>, <<"p", "x">>, <<"x", "w">>,
               <<"p", "w", "d">> }

\* shape is the type of the `password` field in the parsed body ("string" as
\* well when the field is absent), or "nullBody" when the body is the JSON
\* text null; a number's password is its digits, an array's the characters
\* whose codes it holds.
EmptyBody == [parsable |-> TRUE, shape |-> "string", password |-> <<>>]

UnparsableBody == [parsable |-> FALSE, shape |-> "string", password |-> <<>>]

AuthBodies ==
    [parsable : {TRUE}, shape : {"string"}, password : Passwords] \cup {UnparsableBody}

\* The requests the session endpoint receives; jar is the cookie the
\* endpoint has given the browser.
AuthEvents(e, jar) ==
    [method : {"GET"}, cookie : Cookies(e) \cup {jar}, body : {EmptyBody}]
    \cup [method : {"POST"}, cookie : {NoCookie}, body : AuthBodies]
    \cup [method : {"DELETE"}, cookie : {NoCookie}, body : {EmptyBody, UnparsableBody}]

\* The attributes that follow authToken=<token> in the Set-Cookie header
CookieAttributes == <<"Path=/", "HttpOnly", "Secure", "SameSite=Lax">>

JsonHeaders == {"Content-Type: application/json"}

\* response(statusCode, body): no Set-Cookie header
Response(status, body) ==
    [status |-> status, body |-> body, headers |-> JsonHeaders,
     setCookie |-> NoCookie, name |-> "", attributes |-> <<>>, maxAge |-> 0]

\* The 200 of a login: response(200, { ok: true }) with the Set-Cookie
\* header `authToken=<token>; <attributes>; Max-Age=<seconds>`
LoginResponse(token, ttl) ==
    [status |-> 200, body |-> "ok", headers |-> JsonHeaders,
     setCookie |-> token, name |-> "authToken",
     attributes |-> CookieAttributes, maxAge |-> ttl \div MsPerSecond]

\* The handler's promise rejects: an exception no catch block takes.
Thrown == [status |-> 0, body |-> "TypeError", headers |-> {},
           setCookie |-> NoCookie, name |-> "", attributes |-> <<>>, maxAge |-> 0]

\* `body.password || ''` is '': null, '', 0 and an absent field are falsy,
\* every array and object is truthy.
PasswordFalsy(body) ==
    \/ body.shape = "null"
    \/ body.shape = "string" /\ body.password = <<>>
    \/ body.shape = "number" /\ body.password = <<"0">>

\* Buffer.from(a) throws a TypeError for a number and for a plain object;
\* it makes a buffer of a string's characters and of an array's bytes.
BufferFromThrows(body) == body.shape \in {"number", "object"}

\* `password && timingSafeEqual(password, PORTAL_PASSWORD)`
IsValid(password, e) ==
    password # <<>> /\ TimingSafeEqual(password, e.PORTAL_PASSWORD)

CompareSteps_EarlyExit(a, b) ==
    LET first == IF \E i \in 1..Len(a) : a[i] # b[i]
                 THEN CHOOSE i \in 1..Len(a) :
                          a[i] # b[i] /\ \A j \in 1..(i - 1) : a[j] = b[j]
                 ELSE Len(a)
    IN  IF Len(a) # Len(b) THEN << [op |-> "length", bytes |-> 0] >>
        ELSE << [op |-> "length", bytes |-> 0],
                [op |-> "crypto.timingSafeEqual", bytes |-> first] >>

\* What timingSafeEqual(a, b) does after making the two buffers: the
\* comparison of their lengths, then, when they are equal, one call of
\* crypto.timingSafeEqual on the whole buffers.
CompareSteps(a, b) ==
    IF Len(a) # Len(b) THEN << [op |-> "length", bytes |-> 0] >>
    ELSE << [op |-> "length", bytes |-> 0],
            [op |-> "crypto.timingSafeEqual", bytes |-> Len(a)] >>

\* The comparison steps of one request to the session endpoint: those of
\* verifyToken for a GET whose cookie has an expiry and a signature, those of
\* the password check for a POST with a password.
AuthWork(ev, e, t) ==
    LET secret == SecretOf(e)
        token  == ev.cookie
        expiresAt == NumberOf(token.expStr)
    IN
    IF secret = <<>> \/ e.PORTAL_PASSWORD = <<>> THEN <<>>
    ELSE IF ev.method = "GET"
    THEN IF \/ token.segs < 2 \/ token.expStr = "" \/ token.sig = <<>>
            \/ expiresAt.nan \/ (~expiresAt.inf /\ expiresAt.val < t)
         THEN <<>>
         ELSE CompareSteps(SignParsed(expiresAt, secret), token.sig)
    ELSE IF \/ ev.method # "POST" \/ ~ev.body.parsable \/ ev.body.password = <<>>
            \/ ev.body.shape = "nullBody" \/ PasswordFalsy(ev.body)
            \/ BufferFromThrows(ev.body)
    THEN <<>>
    ELSE CompareSteps(ev.body.password, e.PORTAL_PASSWORD)

AuthHandler_MethodFirst(ev, e, t) ==
    LET secret == SecretOf(e) IN
    IF ev.method \notin {"GET", "POST"} THEN Response(405, "Méthode non autorisée")
    ELSE IF secret = <<>> \/ e.PORTAL_PASSWORD = <<>> THEN Response(500, "Configuration manquante")
    ELSE IF ev.method = "GET"
    THEN IF VerifyToken(ev.cookie, secret, t) THEN Response(200, "ok")
         ELSE Response(401, "Non authentifié")
    ELSE IF ~ev.body.parsable THEN Response(400, "Requête invalide")
    ELSE IF ~IsValid(ev.body.password, e) THEN Response(401, "Mot de passe incorrect")
    ELSE LoginResponse(GenerateToken(secret, t, TokenTtlMs(e)), TokenTtlMs(e))

AuthHandler_ExpiryTold(ev, e, t) ==
    LET secret == SecretOf(e) IN
    IF secret = <<>> \/ e.PORTAL_PASSWORD = <<>> THEN Response(500, "Configuration manquante")
    ELSE IF ev.method = "GET"
    THEN IF VerifyToken(ev.cookie, secret, t) THEN Response(200, "ok")
         ELSE IF VerifyToken(ev.cookie, secret, 0) THEN Response(401, "Session expirée")
         ELSE Response(401, "Non authentifié")
    ELSE IF ev.method # "POST" THEN Response(405, "Méthode non autorisée")
    ELSE IF ~ev.body.parsable THEN Response(400, "Requête invalide")
    ELSE IF ~IsValid(ev.body.password, e) THEN Response(401, "Mot de passe incorrect")
    ELSE LoginResponse(GenerateToken(secret, t, TokenTtlMs(e)), TokenTtlMs(e))

\* exports.handler of the session endpoint, at clock value t
AuthHandler(ev, e, t) ==
    LET secret == SecretOf(e) IN
    IF secret = <<>> \/ e.PORTAL_PASSWORD = <<>> THEN Response(500, "Configuration manquante")
    ELSE IF ev.method = "GET"
    THEN IF ev.cookie = NoHeaders THEN Thrown
         ELSE IF VerifyToken(ev.cookie, secret, t) THEN Response(200, "ok")
         ELSE Response(401, "Non authentifié")
    ELSE IF ev.method # "POST" THEN Response(405, "Méthode non autorisée")
    ELSE IF ~ev.body.parsable \/ ev.body.shape = "nullBody"
    THEN Response(400, "Requête invalide")
    ELSE IF PasswordFalsy(ev.body) THEN Response(401, "Mot de passe incorrect")
    ELSE IF BufferFromThrows(ev.body) THEN Thrown
    ELSE IF ~IsValid(ev.body.password, e) THEN Response(401, "Mot de passe incorrect")
    ELSE LoginResponse(GenerateToken(secret, t, TokenTtlMs(e)), TokenTtlMs(e))

NoAnswer == [ev |-> [method |-> "none", cookie |-> NoCookie, body |-> EmptyBody],
             status |-> 0, setCookie |-> FALSE, body |-> "", headers |-> {},
             name |-> "", attributes |-> <<>>, maxAge |-> 0, work |-> <<>>]

NoSession == [jar |-> NoCookie, answer |-> NoAnswer]

----------------------------------------------------------------------------
(* The OAuth exchange's responses *)

\* error_description as its words; <<>> is an absent description.
Descriptions == { <<>>,
                  <<"too", "many", "requests">>,
                  <<"You", "have", "made", "Too", "Many", "Requests", "continuously">>,
                  <<"too", "many", "attempts">> }

OkResponses ==
    [kind : {"ok"}, hasToken : {TRUE}, hasExpiresIn : {TRUE},
     expires_in : {0, 30, 120}, error : {""}, error_description : {<<>>}]
    \cup
    [kind : {"ok"}, hasToken : BOOLEAN, hasExpiresIn : {FALSE},
     expires_in : {0}, error : {""}, error_description : {<<>>}]

ErrorResponses ==
    [kind : {"http_error"}, hasToken : {FALSE}, hasExpiresIn : {FALSE},
     expires_in : {0}, error : {"Access Denied"}, error_description : Descriptions]
    \cup
    [kind : {"http_error"}, hasToken : {FALSE}, hasExpiresIn : {FALSE},
     expires_in : {0}, error : {"invalid_client"},
     error_description : {<<"too", "many", "requests">>}]
    \cup
    \* fetch rejected, or the body was not JSON
    [kind : {"threw"}, hasToken : {FALSE}, hasExpiresIn : {FALSE},
     expires_in : {0}, error : {""}, error_description : {<<>>}]

Responses == OkResponses \cup ErrorResponses

NoResponse == [kind |-> "none", hasToken |-> FALSE, hasExpiresIn |-> FALSE,
               expires_in |-> 0, error |-> "", error_description |-> <<>>]

TooManyRequestsTest_CaseSensitive(d) ==
    \E i \in 1..Len(d) :
        /\ i + 2 <= Len(d)
        /\ d[i] = "too" /\ d[i + 1] = "many" /\ d[i + 2] = "requests"

\* /too many requests/i: the three words in a row, whatever their case.
LowerCase(w) ==
    CASE w = "Too" -> "too"
      [] w = "Many" -> "many"
      [] w = "Requests" -> "requests"
      [] w = "You" -> "you"
      [] OTHER -> w

TooManyRequestsTest(d) ==
    \E i \in 1..Len(d) :
        /\ i + 2 <= Len(d)
        /\ LowerCase(d[i]) = "too"
        /\ LowerCase(d[i + 1]) = "many"
        /\ LowerCase(d[i + 2]) = "requests"

\* err.rateLimited, set only by ticketMessages and only for a non-2xx answer
IsRateLimited(h, resp) ==
    /\ SingleFlight(h)
    /\ resp.kind = "http_error"
    /\ resp.error = "Access Denied"
    /\ TooManyRequestsTest(resp.error_description)

\* the handler's catch block
CatchStatus(h, rateLimited) ==
    IF SingleFlight(h) /\ rateLimited THEN 429 ELSE 500

----------------------------------------------------------------------------
(* getAccessToken *)

TokenUsable_ForceIgnored(force, tok, expiry, t) ==
    Truthy(tok) /\ t < expiry - SafetyMarginMs

TokenUsable_DoubleMargin(force, tok, expiry, t) ==
    ~force /\ Truthy(tok) /\ t < expiry - 2 * SafetyMarginMs

TokenUsable_Inclusive(force, tok, expiry, t) ==
    ~force /\ Truthy(tok) /\ t <= expiry - SafetyMarginMs

\* The fast path's condition.  The handlers other than ticketMessages have
\* no forceRefresh parameter: they are called with force = FALSE.
TokenUsable(force, tok, expiry, t) ==
    ~force /\ Truthy(tok) /\ t < expiry - SafetyMarginMs

JoinsInFlight_Never(h, tp) == FALSE

\* `if (tokenPromise) return tokenPromise;`
JoinsInFlight(h, tp) == SingleFlight(h) /\ tp # NoPromise

\* data.expires_in || 3600 : 0 and an absent field are both falsy
LifetimeSeconds(resp) ==
    IF resp.hasExpiresIn /\ resp.expires_in # 0 THEN resp.expires_in
    ELSE DefaultExpiresIn

\* now + (data.expires_in || 3600) * 1000, `now` read when the call began
ComputeExpiry(startedAt, resp) == startedAt + LifetimeSeconds(resp) * MsPerSecond

\* data.access_token of the e-th exchange's answer
AccessTokenOf(e, resp) == IF resp.hasToken THEN TokenName[e] ELSE "undefined"

MarkerAfterStart_NotSet(h, tp, e) == tp

\* `tokenPromise = (async () => { ... })();` : the marker names the exchange
\* the call has just started (the other handlers have no marker).
MarkerAfterStart(h, tp, e) == IF SingleFlight(h) THEN e ELSE tp

MarkerAfterSettle_OnSuccessOnly(h, tp, resp) ==
    IF SingleFlight(h) /\ resp.kind = "ok" THEN NoPromise ELSE tp

\* `finally { tokenPromise = null; }` runs in the initiating call once the
\* exchange has settled, whatever its outcome.
MarkerAfterSettle(h, tp, resp) == IF SingleFlight(h) THEN NoPromise ELSE tp

\* The origin the write handlers name in their CORS headers
PortalOrigin == "https://zohodeskclabots.netlify.app"

WildcardCors == {"Access-Control-Allow-Origin: *"}

PortalCors == {"Access-Control-Allow-Origin: " \o PortalOrigin,
               "Access-Control-Allow-Credentials: true"}

\* The handlers that write: the attachment upload and the two versions of
\* the resolution update.
WriteHandlers == {"uploadImage"} \cup ResolutionHandlers

\* unauthorized(): the response to a request that fails verifyAuth
Unauthorized(h) ==
    [status |-> 401, error |-> "Non authentifié",
     headers |-> IF h \in WriteHandlers THEN PortalCors ELSE WildcardCors]

\* The headers of the 405 and 400 a handler returns for its own checks; the
\* 500 of uploadImage's unparsable body comes from its catch block.
PreCheckHeaders(h, status) ==
    IF h \in WriteHandlers /\ status = 500 THEN PortalCors ELSE WildcardCors

\* The headers of the responses a handler returns after getAccessToken: the
\* 200, the helpdesk's refusal passed on, the catch block's response.
OutcomeHeaders(h) == IF h \in WriteHandlers THEN PortalCors ELSE WildcardCors

\* `const limit = 50;` and `let safety = 15;` of the paginated ticketHistory
PageLimit == 50
MaxPages == 15

\* The lines a write handler logs on entry: the request's headers as JSON,
\* its cookie header (or 'Aucun cookie'), and the outcome of verifyAuth.
\* authToken tells whether the line's text includes the value of the
\* request's authToken cookie.  The read handlers log nothing on entry.
EntryLog(h, ev, ok) ==
    IF h \in WriteHandlers
    THEN << [line |-> "Headers reçus", authToken |-> ev.cookie # NoCookie],
            [line |-> "Cookies", authToken |-> ev.cookie # NoCookie],
            [line |-> IF ok THEN "Authentification réussie"
                      ELSE "Échec de l'authentification",
             authToken |-> FALSE] >>
    ELSE <<>>

\* retries, attempt, updateStatus and code belong to addTicketResolution: the
\* refreshes made after a 401, the payload form being tried, the status of the
\* last update answer and the status named in the thrown error's message.
\* error is the error text of unauthorized()'s body (the other bodies are
\* not modelled), headers the response's CORS headers, log the lines the
\* handler writes on entry; fallback tells that the read call has been
\* repeated without `include`.  from, safety and events are the variables of
\* the paginated ticketHistory's loop (events holds, for each page pushed,
\* the `from` it was asked with and its number of items), calls the number
\* of history calls answered, returned the events of the 200 response.
IdleReq == [pc |-> "idle", via |-> "none", authValid |-> FALSE, force |-> FALSE,
            exch |-> 0, token |-> "null", status |-> 0, failed |-> FALSE,
            rateLimited |-> FALSE, fast |-> FALSE,
            retries |-> 0, attempt |-> 0, updateStatus |-> 0, code |-> 0,
            error |-> "", headers |-> {}, log |-> <<>>, fallback |-> FALSE,
            from |-> 1, safety |-> MaxPages, events |-> <<>>, calls |-> 0,
            returned |-> <<>>, newResolution |-> <<>>,
            list |-> <<>>, i |-> 0, candidate |-> 0, withBodies |-> <<>>,
            tried |-> <<>>]

\* Where a caller goes once getAccessToken has given it a token: the handler
\* issues its first helpdesk call (the repeated update when the token was
\* asked for after a 401), any other caller is finished.
AfterToken(r) ==
    IF r.via # "handler" THEN "done"
    ELSE IF r.retries > 0 THEN "update" ELSE "downstream"

\* A caller to which the awaited exchange's outcome is delivered.
Delivered(h, r, e, resp) ==
    IF resp.kind = "ok"
    THEN [r EXCEPT !.pc = AfterToken(r),
                   !.token = AccessTokenOf(e, resp)]
    ELSE [r EXCEPT !.pc = "done",
                   !.failed = TRUE,
                   !.rateLimited = IsRateLimited(h, resp),
                   !.status = IF r.via = "handler"
                              THEN CatchStatus(h, IsRateLimited(h, resp))
                              ELSE 0,
                   !.headers = IF r.via = "handler" THEN OutcomeHeaders(h)
                               ELSE {}]

\* The synchronous part of getAccessToken(force), called by caller c whose
\* record so far is r, when the module's cache holds tok and expiry.
GetAccessTokenWith(c, force, r, tok, expiry) ==
    LET r0 == [r EXCEPT !.force = force] IN
    /\ cachedAccessToken' = tok
    /\ accessTokenExpiry' = expiry
    /\ IF TokenUsable(force, tok, expiry, now)
       THEN /\ req' = [req EXCEPT ![c] =
                          [r0 EXCEPT !.pc = AfterToken(r0),
                                     !.fast = TRUE,
                                     !.token = tok]]
            /\ UNCHANGED <<tokenPromise, exchanges>>
       ELSE IF JoinsInFlight(handler, tokenPromise)
       THEN /\ req' = [req EXCEPT ![c] =
                          [r0 EXCEPT !.pc = "token", !.exch = tokenPromise]]
            /\ UNCHANGED <<tokenPromise, exchanges>>
       ELSE /\ exchanges' = Append(exchanges,
                   [startedAt |-> now, owner |-> c, state |-> "pending"])
            /\ tokenPromise' = MarkerAfterStart(handler, tokenPromise, Len(exchanges) + 1)
            /\ req' = [req EXCEPT ![c] =
                          [r0 EXCEPT !.pc = "token", !.exch = Len(exchanges) + 1]]

GetAccessToken(c, force, r) ==
    GetAccessTokenWith(c, force, r, cachedAccessToken, accessTokenExpiry)

----------------------------------------------------------------------------
(* Actions *)

\* exports.handler is invoked with event ev and runs to its first await.
Request(c, ev) ==
    /\ handler \in Handlers
    /\ req[c].pc = "idle"
    /\ \A d \in Callers : d < c => req[d].pc # "idle"
    /\ LET ok == VerifyAuth(ev, env, now)
           r  == [IdleReq EXCEPT !.via = "handler", !.authValid = ok,
                                 !.log = EntryLog(handler, ev, ok)]
       IN  IF HasVerifyAuth(handler) /\ ~ok
           THEN /\ req' = [req EXCEPT ![c] =
                              [r EXCEPT !.pc = "done",
                                        !.status = Unauthorized(handler).status,
                                        !.error = Unauthorized(handler).error,
                                        !.headers = Unauthorized(handler).headers]]
                /\ UNCHANGED cacheVars
           ELSE IF PreCheck(handler, ev) # 0
           THEN /\ req' = [req EXCEPT ![c] =
                              [r EXCEPT !.pc = "done",
                                        !.status = PreCheck(handler, ev),
                                        !.headers = PreCheckHeaders(handler,
                                                        PreCheck(handler, ev))]]
                /\ UNCHANGED cacheVars
           ELSE GetAccessToken(c, FALSE, r)
    /\ UNCHANGED <<handler, env, now, lastResponse, session, ticket>>

\* getAccessToken(forceRefresh) called as a function, not through the handler
\* (only ticketMessages' getAccessToken has the parameter).
DirectCall(c, force) ==
    /\ req[c].pc = "idle"
    /\ \A d \in Callers : d < c => req[d].pc # "idle"
    /\ SingleFlight(handler)
    /\ GetAccessToken(c, force, [IdleReq EXCEPT !.via = "direct"])
    /\ UNCHANGED <<handler, env, now, lastResponse, session, ticket>>

\* The network call of exchange e ends with resp: the rest of the exchange's
\* code runs, then the continuations of every caller awaiting it.
Settle(e, resp) ==
    /\ e \in 1..Len(exchanges)
    /\ exchanges[e].state = "pending"
    /\ LET ok     == resp.kind = "ok"
           tok    == IF ok THEN AccessTokenOf(e, resp) ELSE cachedAccessToken
           expiry == IF ok THEN ComputeExpiry(exchanges[e].startedAt, resp)
                     ELSE accessTokenExpiry
       IN  /\ cachedAccessToken' = tok
           /\ accessTokenExpiry' = expiry
           /\ tokenPromise' = MarkerAfterSettle(handler, tokenPromise, resp)
           /\ exchanges' = [exchanges EXCEPT ![e] =
                               [@ EXCEPT !.state = IF ok THEN "ok" ELSE "failed"]]
           /\ lastResponse' = resp
           /\ req' = [c \in Callers |->
                        IF req[c].pc = "token" /\ req[c].exch = e
                        THEN Delivered(handler, req[c], e, resp)
                        ELSE req[c]]
    /\ UNCHANGED <<handler, env, now, session, ticket>>

\* The helpdesk's answers to a handler's read call.
\* body tells what the answer's text is: JSON whose data is an array of
\* `items` entries, JSON without an array, or text that res.json() refuses;
\* more is the page context's has-more flag, withoutId the positions of the
\* entries that have no id.  Here the body is an empty list.
DownstreamAnswers ==
    [status : {200, 401, 404, 500}, errorCode : {"", "URL_NOT_FOUND"},
     body : {"array"}, items : {0}, more : {FALSE}, withoutId : {{}}]

OkAnswer == [status |-> 200, errorCode |-> "", body |-> "array", items |-> 0,
             more |-> FALSE, withoutId |-> {}]

\* The status the handler answers with.  tickets and the unpaginated
\* ticketHistory answer 500 for every refusal; uploadImage and
\* addTicketResolution throw into their catch block (500); ticketMessages
\* answers 200 with an empty list for 404 URL_NOT_FOUND; the others pass the
\* helpdesk's status on.
DownstreamStatus(h, ans) ==
    IF ans.status = 200 THEN 200
    ELSE IF h \in {"tickets", "ticketHistory", "uploadImage",
                   "addTicketResolution", "addTicketResolutionSimple"} THEN 500
    ELSE IF h = "ticketMessages" /\ ans.status = 404 /\ ans.errorCode = "URL_NOT_FOUND"
    THEN 200
    ELSE ans.status

\* The answers to the first read call, made with `include`, after which the
\* handler repeats the call without it: a 4xx in ticketConversations,
\* ticketThreads and ticketMessages, every refusal in layoutFields.
IncludeFallback(h, ans) ==
    CASE h \in {"ticketConversations", "ticketThreads", "ticketMessages"} ->
            ans.status >= 400 /\ ans.status < 500
      [] h = "layoutFields" -> ans.status # 200
      [] OTHER -> FALSE

PageStep_RefusalIs500(r, ans) ==
    LET r1 == [r EXCEPT !.calls = @ + 1, !.headers = WildcardCors] IN
    IF ans.body = "invalid" \/ ans.status # 200
    THEN [r1 EXCEPT !.pc = "done", !.status = 500]
    ELSE IF ans.body # "array"
    THEN [r1 EXCEPT !.pc = "done", !.status = 200, !.returned = r.events]
    ELSE LET events  == Append(r.events, [from |-> r.from, count |-> ans.items])
             hasMore == ans.more \/ ans.items = PageLimit
             r2      == [r1 EXCEPT !.events = events, !.from = @ + PageLimit,
                                   !.safety = @ - 1]
         IN  IF hasMore /\ r2.safety > 0
             THEN [r2 EXCEPT !.headers = {}]
             ELSE [r2 EXCEPT !.pc = "done", !.status = 200, !.returned = events]

PageStep_NoSafety(r, ans) ==
    LET r1 == [r EXCEPT !.calls = @ + 1, !.headers = WildcardCors] IN
    IF ans.body = "invalid" THEN [r1 EXCEPT !.pc = "done", !.status = 500]
    ELSE IF ans.status # 200 THEN [r1 EXCEPT !.pc = "done", !.status = ans.status]
    ELSE IF ans.body # "array"
    THEN [r1 EXCEPT !.pc = "done", !.status = 200, !.returned = r.events]
    ELSE LET events  == Append(r.events, [from |-> r.from, count |-> ans.items])
             hasMore == ans.more \/ ans.items = PageLimit
             r2      == [r1 EXCEPT !.events = events, !.from = @ + PageLimit,
                                   !.safety = @ - 1]
         IN  IF hasMore
             THEN [r2 EXCEPT !.headers = {}]
             ELSE [r2 EXCEPT !.pc = "done", !.status = 200, !.returned = events]

\* One history call of the paginated ticketHistory is answered: the body is
\* parsed (500 when it is not JSON), a refusal ends the handler with the
\* page's status, a body without an array ends the loop, an array is pushed
\* onto events; the loop goes on while the page said there is more, or was
\* full, and safety is above 0.
PageStep(r, ans) ==
    LET r1 == [r EXCEPT !.calls = @ + 1, !.headers = WildcardCors] IN
    IF ans.body = "invalid" THEN [r1 EXCEPT !.pc = "done", !.status = 500]
    ELSE IF ans.status # 200 THEN [r1 EXCEPT !.pc = "done", !.status = ans.status]
    ELSE IF ans.body # "array"
    THEN [r1 EXCEPT !.pc = "done", !.status = 200, !.returned = r.events]
    ELSE LET events  == Append(r.events, [from |-> r.from, count |-> ans.items])
             hasMore == ans.more \/ ans.items = PageLimit
             r2      == [r1 EXCEPT !.events = events, !.from = @ + PageLimit,
                                   !.safety = @ - 1]
         IN  IF hasMore /\ r2.safety > 0
             THEN [r2 EXCEPT !.headers = {}]
             ELSE [r2 EXCEPT !.pc = "done", !.status = 200, !.returned = events]

\* `currentResolution ? `${currentResolution}\n\n[Feedback client - ...]\n${resolutionContent}`
\*                    : `[Feedback client - ...]\n${resolutionContent}``:
\* the text read from the ticket, then the block of caller c's feedback.
NewResolution(currentResolution, c) == Append(currentResolution, c)

\* ticketConversations: the detail loop over the listed conversations.
DetailLimit == 3
DetailCandidates == 3

\* `Math.min(list.length, 3)`
DetailCount(list) == IF Len(list) < DetailLimit THEN Len(list) ELSE DetailLimit

\* The next pass of `for (let i = ...)` that does not `continue`: the first
\* position from `start` on, within the loop's range, whose entry has an id;
\* 0 when the loop is over.
NextConversation(list, start) ==
    LET rest == { j \in start..DetailCount(list) : list[j].id } IN
    IF rest = {} THEN 0 ELSE CHOOSE j \in rest : \A k \in rest : j <= k

\* The loop is over: `conversations = withBodies.length > 0 ? withBodies : list`,
\* and with no entry in withBodies one more entry, the outcome of the threads
\* call, is pushed after the list; the handler answers 200.
ConversationsDone(r) ==
    [r EXCEPT !.pc = "done", !.status = 200, !.headers = WildcardCors,
              !.returned =
                  IF r.withBodies # <<>> THEN r.withBodies
                  ELSE [j \in 1..Len(r.list) |-> [conv |-> j, kind |-> "listed"]]
                         \o << [conv |-> 0, kind |-> "threads"] >>]

\* The loop goes on with the entry at `start`, or ends.
ConversationsFrom(r, start) ==
    LET j == NextConversation(r.list, start) IN
    IF j = 0 THEN ConversationsDone([r EXCEPT !.i = 0, !.candidate = 0])
    ELSE [r EXCEPT !.pc = "detail", !.i = j, !.candidate = 1]

\* The list call has answered 200: `list` is data.data, or data itself when
\* data.data is no array (the loop then makes no pass).
ConversationsStart(r, ans) ==
    LET list == IF ans.body = "array"
                THEN [j \in 1..ans.items |-> [id |-> j \notin ans.withoutId]]
                ELSE <<>>
    IN  ConversationsFrom([r EXCEPT !.list = list, !.withBodies = <<>>,
                                    !.tried = [j \in 1..Len(list) |-> 0]], 1)

\* The answers to a detail call: 2xx with a body (JSON, or text res.json()
\* refuses, which becomes { parseError }), 2xx with the JSON text null, a
\* refusal, a fetch that rejects.
DetailAnswers == {"ok", "okNull", "refused", "fetchError"}

\* A detail call is answered: `detailRes.ok && detailData` pushes the detail
\* and ends the candidates of this conversation; after the last candidate
\* the listed entry is pushed with the error.
DetailStep(r, ans) ==
    LET r1 == [r EXCEPT !.tried[r.i] = @ + 1] IN
    IF ans = "ok"
    THEN ConversationsFrom(
             [r1 EXCEPT !.withBodies = Append(@, [conv |-> r.i, kind |-> "detail"])],
             r.i + 1)
    ELSE IF r.candidate < DetailCandidates
    THEN [r1 EXCEPT !.candidate = @ + 1]
    ELSE ConversationsFrom(
             [r1 EXCEPT !.withBodies = Append(@, [conv |-> r.i, kind |-> "failed"])],
             r.i + 1)

DetailRespond(c, ans) ==
    /\ handler = "ticketConversations"
    /\ req[c].pc = "detail"
    /\ req' = [req EXCEPT ![c] = DetailStep(req[c], ans)]
    /\ UNCHANGED <<handler, env, now, cacheVars, lastResponse, session, ticket>>

\* A read call is answered.  The first answer may send the handler to the
\* call without `include`; the handler ends on any other answer.  In
\* addTicketResolution the read call fetches the ticket: when it
\* succeeds the handler goes on and sends the resolution update.
DownstreamRespond(c, ans) ==
    /\ req[c].pc = "downstream"
    /\ req' = [req EXCEPT ![c] =
                 IF handler = "ticketHistoryPaged" THEN PageStep(req[c], ans)
                 ELSE IF IncludeFallback(handler, ans) /\ ~req[c].fallback
                 THEN [@ EXCEPT !.fallback = TRUE]
                 ELSE IF handler = "ticketConversations" /\ ans.status = 200
                 THEN ConversationsStart(req[c], ans)
                 ELSE IF handler \in ResolutionHandlers /\ ans.status = 200
                 THEN [@ EXCEPT !.pc = "update", !.attempt = 1,
                                !.newResolution =
                                    IF ticket.followed
                                    THEN NewResolution(ticket.resolution, c)
                                    ELSE <<>>]
                 ELSE [@ EXCEPT !.pc = "done",
                                !.status = DownstreamStatus(handler, ans),
                                !.headers = OutcomeHeaders(handler)]]
    /\ UNCHANGED <<handler, env, now, cacheVars, lastResponse, session, ticket>>

\* The helpdesk's answers to the PUT that writes the resolution: the status,
\* and whether the body is JSON (an empty body is taken as such: a default
\* object replaces it) or text that JSON.parse refuses.
UpdateAnswers == [status : {200, 400, 401}, body : {"json", "invalid"}]

OkUpdateAnswer == [status |-> 200, body |-> "json"]

FallbackStatuses_SameForAll(h, attempt) ==
    IF h # "addTicketResolution" THEN {}
    ELSE CASE attempt \in {1, 2} -> {400, 404, 405, 415}
           [] OTHER -> {}

\* attempt.fallbackStatuses of sendResolutionUpdate's three payload forms;
\* the simple version sends one PUT.
FallbackStatuses(h, attempt) ==
    IF h # "addTicketResolution" THEN {}
    ELSE CASE attempt = 1 -> {400, 404, 405, 415}
           [] attempt = 2 -> {400, 415}
           [] OTHER       -> {}

ShouldRefresh_AnyRefusal(status) == status # 200

\* `updateRes.status === 401`
ShouldRefresh(status) == status = 401

ResetCache_Kept(tok, expiry) == [token |-> tok, expiry |-> expiry]

\* `cachedAccessToken = null; accessTokenExpiry = 0;`
ResetCache(tok, expiry) == [token |-> "null", expiry |-> 0]

\* One PUT of the resolution update is answered.  The body is read and parsed
\* first (an unparsable body throws, the status unread); a 2xx ends the
\* handler with 200, and the helpdesk has stored the text it was sent; a
\* status in the payload form's fallback list moves to the next form; a 401
\* that ends the first update clears the cache, asks getAccessToken for a
\* token and repeats the update; every other refusal is thrown with the
\* status in its message and answered by the catch block.
UpdateRespond(c, ans) ==
    /\ req[c].pc = "update"
    /\ ticket' = IF ticket.followed /\ ans.status = 200
                  THEN [ticket EXCEPT !.resolution = req[c].newResolution]
                  ELSE ticket
    /\ LET r == [req[c] EXCEPT !.updateStatus = ans.status] IN
       IF ans.body = "invalid"
       THEN /\ req' = [req EXCEPT ![c] =
                          [@ EXCEPT !.pc = "done", !.status = 500,
                                    !.headers = OutcomeHeaders(handler)]]
            /\ UNCHANGED cacheVars
       ELSE IF ans.status = 200
       THEN /\ req' = [req EXCEPT ![c] =
                          [r EXCEPT !.pc = "done", !.status = 200,
                                    !.headers = OutcomeHeaders(handler)]]
            /\ UNCHANGED cacheVars
       ELSE IF ans.status \in FallbackStatuses(handler, r.attempt)
       THEN /\ req' = [req EXCEPT ![c] = [r EXCEPT !.attempt = @ + 1]]
            /\ UNCHANGED cacheVars
       ELSE IF r.retries = 0 /\ ShouldRefresh(ans.status)
       THEN LET cleared == ResetCache(cachedAccessToken, accessTokenExpiry) IN
            GetAccessTokenWith(c, FALSE, [r EXCEPT !.retries = 1, !.attempt = 1],
                               cleared.token, cleared.expiry)
       ELSE /\ req' = [req EXCEPT ![c] =
                         [r EXCEPT !.pc = "done", !.status = 500, !.code = ans.status,
                                   !.headers = OutcomeHeaders(handler)]]
            /\ UNCHANGED cacheVars
    /\ UNCHANGED <<handler, env, now, lastResponse, session>>

\* Time passes.
Tick(t) ==
    /\ t > now
    /\ now' = t
    /\ UNCHANGED <<handler, env, req, cacheVars, lastResponse, session, ticket>>

\* The session endpoint is invoked with event ev: the browser keeps the
\* cookie of a Set-Cookie header.
AuthRequest(ev) ==
    /\ handler = SessionEndpoint
    /\ LET res == AuthHandler(ev, env, now) IN
       session' = [jar    |-> IF res.setCookie # NoCookie THEN res.setCookie
                              ELSE session.jar,
                   answer |-> [ev |-> ev, status |-> res.status,
                               setCookie |-> res.setCookie # NoCookie,
                               body |-> res.body, headers |-> res.headers,
                               name |-> res.name,
                               attributes |-> res.attributes,
                               maxAge |-> res.maxAge,
                               work |-> AuthWork(ev, env, now)]]
    /\ UNCHANGED <<handler, env, now, req, cacheVars, lastResponse, ticket>>

\* The site is deployed with another configuration: the function's module
\* is loaded anew, reads process.env and starts with an empty cache.  The
\* browser keeps its cookie.
Redeploy(e) ==
    /\ e # env
    /\ env' = e
    /\ cachedAccessToken' = "null"
    /\ accessTokenExpiry' = 0
    /\ tokenPromise' = NoPromise
    /\ exchanges' = <<>>
    /\ lastResponse' = NoResponse
    /\ req' = [c \in Callers |-> IdleReq]
    /\ session' = [session EXCEPT !.answer = NoAnswer]
    /\ UNCHANGED <<handler, now, ticket>>

----------------------------------------------------------------------------
(* Specifications *)

GoodEnv == [AUTH_SECRET |-> <<"k", "1">>, PORTAL_PASSWORD |-> <<"p", "w">>,
            AUTH_TTL_HOURS |-> ""]

Envs == { GoodEnv,
          [GoodEnv EXCEPT !.AUTH_SECRET = <<>>],
          [GoodEnv EXCEPT !.AUTH_SECRET = <<>>, !.PORTAL_PASSWORD = <<>>] }

InitCache ==
    /\ now = 0
    /\ cachedAccessToken = "null"
    /\ accessTokenExpiry = 0
    /\ tokenPromise = NoPromise
    /\ exchanges = <<>>
    /\ lastResponse = NoResponse
    /\ req = [c \in Callers |-> IdleReq]

\* The helpdesk's data is left out: the handlers' flow does not depend on it.
InitTicket == ticket = [followed |-> FALSE, resolution |-> <<>>]

\* A request that passes the session check and the handler's own checks.
GoodEvent(e) == [cookie |-> [segs |-> 2, expStr |-> "3590000",
                             sig |-> Hmac(SecretOf(e), "3590000")],
                 method |-> "POST", input |-> "ok"]

\* The token cache of every handler, under authenticated requests, every
\* answer of the identity provider and the passing of time.
Init ==
    /\ handler \in Handlers
    /\ env = GoodEnv
    /\ InitCache
    /\ InitTicket
    /\ session = NoSession

NextCache ==
    \/ \E c \in Callers : Request(c, GoodEvent(env))
    \/ \E c \in Callers : \E force \in BOOLEAN : DirectCall(c, force)
    \/ \E e \in 1..Len(exchanges) : \E resp \in Responses : Settle(e, resp)
    \/ \E c \in Callers : DownstreamRespond(c, OkAnswer)
    \/ \E t \in Instants : Tick(t)

Next ==
    \/ NextCache
    \/ \E c \in Callers : UpdateRespond(c, OkUpdateAnswer)

Spec == Init /\ [][Next]_vars

\* The token cache of ticketMessages alone.
InitMessages ==
    /\ handler = "ticketMessages"
    /\ env = GoodEnv
    /\ InitCache
    /\ InitTicket
    /\ session = NoSession

SpecMessages == InitMessages /\ [][NextCache]_vars

\* A network call ends: node-fetch resolves or rejects every call.
FairMessages ==
    /\ InitMessages
    /\ [][NextCache]_vars
    /\ WF_vars(\E e \in 1..Len(exchanges) : \E resp \in Responses : Settle(e, resp))

\* The request flow of every handler, under every event and configuration.
GateResponses == { r \in Responses : r.kind = "threw" \/ (r.hasToken /\ ~r.hasExpiresIn) }

GateUpdateAnswers == { a \in UpdateAnswers : a.status \in {200, 401} /\ a.body = "json" }

InitGate ==
    /\ handler \in Handlers
    /\ env \in Envs
    /\ InitCache
    /\ InitTicket
    /\ session = NoSession

NextGate ==
    \/ \E c \in Callers : \E ev \in Events(env) : Request(c, ev)
    \/ \E e \in 1..Len(exchanges) : \E resp \in GateResponses : Settle(e, resp)
    \/ \E c \in Callers : \E ans \in DownstreamAnswers : DownstreamRespond(c, ans)
    \/ \E c \in Callers : \E ans \in GateUpdateAnswers : UpdateRespond(c, ans)
    \/ \E t \in {60000, 3590000} : Tick(t)

SpecGate == InitGate /\ [][NextGate]_vars

\* The two versions of addTicketResolution under authenticated requests,
\* a ticket that is found, every answer to the resolution update, and OAuth
\* exchanges that succeed or fail.
ResolutionResponses ==
    { r \in Responses : r.kind = "threw" \/ (r.hasToken /\ ~r.hasExpiresIn) }

InitResolution ==
    /\ handler \in ResolutionHandlers
    /\ env = GoodEnv
    /\ InitCache
    /\ InitTicket
    /\ session = NoSession

NextResolution ==
    \/ \E c \in Callers : Request(c, GoodEvent(env))
    \/ \E e \in 1..Len(exchanges) : \E resp \in ResolutionResponses : Settle(e, resp)
    \/ \E c \in Callers : DownstreamRespond(c, OkAnswer)
    \/ \E c \in Callers : \E ans \in UpdateAnswers : UpdateRespond(c, ans)

SpecResolution == InitResolution /\ [][NextResolution]_vars

\* The session cookie: the session endpoint, or a protected function whose
\* client holds a cookie the session endpoint issued at 0, under every
\* configuration, change of configuration and cookie.
SessionEnvs ==
    { [GoodEnv EXCEPT !.AUTH_TTL_HOURS = "1"],
      [GoodEnv EXCEPT !.AUTH_TTL_HOURS = "1", !.AUTH_SECRET = <<"k", "2">>],
      [GoodEnv EXCEPT !.AUTH_TTL_HOURS = "1", !.AUTH_SECRET = <<>>],
      [GoodEnv EXCEPT !.AUTH_SECRET = <<>>],
      [GoodEnv EXCEPT !.AUTH_TTL_HOURS = "1", !.PORTAL_PASSWORD = <<>>],
      [GoodEnv EXCEPT !.AUTH_TTL_HOURS = "1", !.AUTH_SECRET = <<>>,
                      !.PORTAL_PASSWORD = <<>>] }

Configured(e) == SecretOf(e) # <<>> /\ e.PORTAL_PASSWORD # <<>>

\* The cookies the session endpoint issues at 0.
IssuedAtStart ==
    { GenerateToken(SecretOf(e), 0, TokenTtlMs(e)) : e \in { d \in SessionEnvs : Configured(d) } }

SessionEvents(e, jar) ==
    [cookie : Cookies(e) \cup {jar}, method : {"POST"}, input : {"ok"}]

InitSession ==
    /\ handler \in Handlers \cup {SessionEndpoint}
    /\ env \in SessionEnvs
    /\ InitCache
    /\ InitTicket
    /\ session \in [jar : IF handler = SessionEndpoint THEN {NoCookie}
                           ELSE {NoCookie} \cup IssuedAtStart,
                     answer : {NoAnswer}]

NextSession ==
    \/ \E ev \in AuthEvents(env, session.jar) : AuthRequest(ev)
    \/ \E c \in Callers : \E ev \in SessionEvents(env, session.jar) : Request(c, ev)
    \/ \E t \in SessionInstants : Tick(t)
    \/ \E e \in SessionEnvs : Redeploy(e)

SpecSession == InitSession /\ [][NextSession]_vars

\* The login: the session endpoint under each spelling of AUTH_TTL_HOURS
\* (unset, a positive number, zero, negative, not a number, not finite).
LoginEnvs ==
    { [GoodEnv EXCEPT !.AUTH_TTL_HOURS = h] :
        h \in {"", "1", "0", "-2", "abc", "Infinity"} }

LoginEvents(jar) ==
    [method : {"GET"}, cookie : {NoCookie, jar}, body : {EmptyBody}]
    \cup [method : {"POST"}, cookie : {NoCookie}, body : AuthBodies]

InitLogin ==
    /\ handler = SessionEndpoint
    /\ env \in LoginEnvs
    /\ InitCache
    /\ InitTicket
    /\ session = NoSession

NextLogin ==
    \/ \E ev \in LoginEvents(session.jar) : AuthRequest(ev)
    \/ \E t \in SessionInstants : Tick(t)
    \/ \E e \in LoginEnvs : Redeploy(e)

SpecLogin == InitLogin /\ [][NextLogin]_vars

\* The paginated ticketHistory: one authenticated request, an OAuth exchange
\* that succeeds, and every sequence of page answers (full and short pages,
\* with and without the has-more flag, refusals, bodies without an array,
\* bodies that are not JSON).
PageAnswers ==
    [status : {200, 404}, errorCode : {""},
     body : {"array", "object", "invalid"}, items : {7, PageLimit},
     more : BOOLEAN, withoutId : {{}}]

PagedResponses == { r \in Responses : r.hasToken /\ ~r.hasExpiresIn }

InitPaged ==
    /\ handler = "ticketHistoryPaged"
    /\ env = GoodEnv
    /\ InitCache
    /\ InitTicket
    /\ session = NoSession

NextPaged ==
    \/ Request(1, GoodEvent(env))
    \/ \E e \in 1..Len(exchanges) : \E resp \in PagedResponses : Settle(e, resp)
    \/ \E ans \in PageAnswers : DownstreamRespond(1, ans)

SpecPaged == InitPaged /\ [][NextPaged]_vars

\* sendResolutionUpdate: addTicketResolution under one authenticated request, a
\* ticket that is found, OAuth exchanges that succeed, and every status of
\* the fallback lists among the answers to the PUT.
PayloadAnswers ==
    [status : {200, 400, 401, 404, 405, 415, 500}, body : {"json", "invalid"}]

InitPayload ==
    /\ handler = "addTicketResolution"
    /\ env = GoodEnv
    /\ InitCache
    /\ InitTicket
    /\ session = NoSession

NextPayload ==
    \/ Request(1, GoodEvent(env))
    \/ \E e \in 1..Len(exchanges) : \E resp \in PagedResponses : Settle(e, resp)
    \/ DownstreamRespond(1, OkAnswer)
    \/ \E ans \in PayloadAnswers : UpdateRespond(1, ans)
    \/ \E t \in {60000, 3590000} : Tick(t)

SpecPayload == InitPayload /\ [][NextPayload]_vars

\* The resolution text of one ticket under overlapping addTicketResolution
\* requests: the ticket has a resolution already (block 0), every request is
\* authenticated, the OAuth exchanges succeed, the ticket is found, and the
\* helpdesk accepts the update or refuses it with 401.
PreviousResolution == <<0>>

FeedbackAnswers == { a \in UpdateAnswers : a.status \in {200, 401} /\ a.body = "json" }

InitFeedback ==
    /\ handler \in ResolutionHandlers
    /\ env = GoodEnv
    /\ InitCache
    /\ ticket = [followed |-> TRUE, resolution |-> PreviousResolution]
    /\ session = NoSession

NextFeedback ==
    \/ \E c \in Callers : Request(c, GoodEvent(env))
    \/ \E e \in 1..Len(exchanges) : \E resp \in PagedResponses : Settle(e, resp)
    \/ \E c \in Callers : DownstreamRespond(c, OkAnswer)
    \/ \E c \in Callers : \E ans \in FeedbackAnswers : UpdateRespond(c, ans)

SpecFeedback == InitFeedback /\ [][NextFeedback]_vars

\* The session check of the session endpoint under every spelling of a
\* cookie: the decimal expiry, the exponent and padded spellings of the same
\* number, 'Infinity', a third segment, each with the digest of the text as
\* written, of the number's decimal text, or made with another key.
Spellings == {"60000", "6e4", "060000", "3600000", "Infinity", "abc"}

SpellingCookies(e) ==
    [segs : {2, 3}, expStr : Spellings,
     sig : { Hmac(k, m) : k \in {SecretOf(e), <<"k", "0">>}, m \in Spellings }]

VerifyEvents(e, jar) ==
    [method : {"GET"}, cookie : SpellingCookies(e) \cup {NoCookie, jar}, body : {EmptyBody}]
    \cup [method : {"POST"}, cookie : {NoCookie},
          body : {[parsable |-> TRUE, shape |-> "string",
                   password |-> e.PORTAL_PASSWORD]}]

VerifyEnvs == { [GoodEnv EXCEPT !.AUTH_TTL_HOURS = "1"],
                [GoodEnv EXCEPT !.AUTH_TTL_HOURS = "1", !.AUTH_SECRET = <<>>] }

InitVerify ==
    /\ handler = SessionEndpoint
    /\ env \in VerifyEnvs
    /\ InitCache
    /\ InitTicket
    /\ session = NoSession

NextVerify ==
    \/ \E ev \in VerifyEvents(env, session.jar) : AuthRequest(ev)
    \/ \E t \in SessionInstants : Tick(t)

SpecVerify == InitVerify /\ [][NextVerify]_vars

\* The session endpoint under every event: each method, with and without a
\* headers object and a cookie, each body (absent, not JSON, the JSON text
\* null, JSON whose password is a string, a number, an array, an object or
\* null), configured or not.
TotalBodies ==
    [parsable : {TRUE}, shape : {"string", "array"},
     password : {<<>>, <<"p", "w">>, <<"p", "x">>}]
    \cup [parsable : {TRUE}, shape : {"number"}, password : {<<"0">>, <<"5">>}]
    \cup [parsable : {TRUE}, shape : {"object", "null", "nullBody"}, password : {<<>>}]
    \cup {UnparsableBody}

TotalEvents(jar) ==
    [method : {"GET", "POST", "DELETE"}, cookie : {NoHeaders, NoCookie, jar},
     body : TotalBodies]

TotalEnvs == { [GoodEnv EXCEPT !.AUTH_TTL_HOURS = "1"],
               [GoodEnv EXCEPT !.AUTH_SECRET = <<>>, !.PORTAL_PASSWORD = <<>>] }

InitTotal ==
    /\ handler = SessionEndpoint
    /\ env \in TotalEnvs
    /\ InitCache
    /\ InitTicket
    /\ session = NoSession

NextTotal ==
    \/ \E ev \in TotalEvents(session.jar) : AuthRequest(ev)
    \/ \E t \in SessionInstants : Tick(t)

SpecTotal == InitTotal /\ [][NextTotal]_vars

\* ticketConversations: one authenticated request, an OAuth exchange that
\* succeeds, a list call that answers lists of every length up to four, with
\* and without an entry that has no id, or a body without a list, and every
\* answer to each detail call.
ConversationAnswers ==
    [status : {200, 404, 500}, errorCode : {""}, body : {"array", "object"},
     items : {0, 1, 2, 4}, more : {FALSE}, withoutId : {{}, {1}}]

InitConversations ==
    /\ handler = "ticketConversations"
    /\ env = GoodEnv
    /\ InitCache
    /\ InitTicket
    /\ session = NoSession

NextConversations ==
    \/ Request(1, GoodEvent(env))
    \/ \E e \in 1..Len(exchanges) : \E resp \in PagedResponses : Settle(e, resp)
    \/ \E ans \in ConversationAnswers : DownstreamRespond(1, ans)
    \/ \E ans \in DetailAnswers : DetailRespond(1, ans)

SpecConversations == InitConversations /\ [][NextConversations]_vars

----------------------------------------------------------------------------
(* Claims *)

Pending == { e \in 1..Len(exchanges) : exchanges[e].state = "pending" }

\* Caller c's step from idle into a call of getAccessToken.
CallsGetAccessToken(c) ==
    /\ req[c].pc = "idle"
    /\ req'[c].pc # "idle"
    /\ (req'[c].fast \/ req'[c].exch # 0)

\* Caller c's step in which getAccessToken hands it a token.
ReceivesToken(c) ==
    /\ req[c].pc \in {"idle", "token"}
    /\ req'[c].pc \in {"downstream", "done"}
    /\ (req'[c].fast \/ req'[c].exch # 0)
    /\ ~req'[c].failed

\* C1: a request whose authToken cookie does not verify is answered 401 and
\* starts no OAuth exchange, joins none, gets no token and makes no helpdesk
\* call, in every handler.
C1_AuthBeforeUpstream ==
    \A c \in Callers :
        (req[c].via = "handler" /\ ~req[c].authValid) =>
            /\ req[c].pc = "done"
            /\ req[c].status = 401
            /\ req[c].exch = 0
            /\ ~req[c].fast
            /\ req[c].token = "null"

\* C2: in ticketMessages at most one OAuth exchange is in flight, whatever the
\* number of overlapping callers and their forceRefresh values.
C2_SingleFlight ==
    handler = "ticketMessages" => Cardinality(Pending) <= 1

\* two callers, one forcing and one not, wait for the same exchange
C2_Witness ==
    /\ handler = "ticketMessages"
    /\ \E c, d \in Callers :
          /\ req[c].pc = "token" /\ req[d].pc = "token"
          /\ req[c].exch = req[d].exch
          /\ req[c].force /\ ~req[d].force

\* C3: in ticketMessages the calls that wait at the same time wait for one
\* and the same exchange, and the callers of one exchange are answered
\* together with one outcome: the same token, or the same error.
C3_OneOutcome ==
    handler = "ticketMessages" =>
        /\ \A c, d \in Callers :
              (req[c].pc = "token" /\ req[d].pc = "token") => req[c].exch = req[d].exch
        /\ \A c, d \in Callers :
              (req[c].exch # 0 /\ req[c].exch = req[d].exch) =>
                  /\ (req[c].pc = "token") = (req[d].pc = "token")
                  /\ req[c].token = req[d].token
                  /\ req[c].failed = req[d].failed
                  /\ req[c].rateLimited = req[d].rateLimited
        /\ \A c \in Callers :
              (req[c].exch # 0 /\ req[c].pc # "token") =>
                  /\ exchanges[req[c].exch].state # "pending"
                  /\ req[c].failed = (exchanges[req[c].exch].state = "failed")

\* two calls made while nothing was cached got the token of one exchange
C3_Witness ==
    /\ handler = "ticketMessages"
    /\ Len(exchanges) = 1
    /\ \E c, d \in Callers :
          /\ c # d
          /\ req[c].exch = 1 /\ req[d].exch = 1
          /\ req[c].token = "T1" /\ req[d].token = "T1"

\* C4: in the handlers without the marker, overlapping calls made while no
\* usable token is cached start one exchange only.
C4_PlainSingleExchange ==
    handler # "ticketMessages" => Cardinality(Pending) <= 1

\* C5: in ticketMessages the marker is set exactly while an exchange is in
\* flight, a call that finds no exchange in flight and needs a token starts a
\* new one, and a marker that is set is eventually cleared.
C5_MarkerCleared ==
    /\ [](handler = "ticketMessages" =>
            /\ (tokenPromise # NoPromise) = (Pending # {})
            /\ (tokenPromise # NoPromise => Pending = {tokenPromise}))
    /\ [][\A c \in Callers :
            (CallsGetAccessToken(c) /\ ~req'[c].fast /\ Pending = {}) =>
                /\ Len(exchanges') = Len(exchanges) + 1
                /\ req'[c].exch = Len(exchanges')
                /\ tokenPromise' = Len(exchanges')]_vars
    /\ ((tokenPromise # NoPromise) ~> (tokenPromise = NoPromise))

\* a refresh failed, the marker was cleared and a later call started another
C5_Witness ==
    /\ handler = "ticketMessages"
    /\ Len(exchanges) = 2
    /\ exchanges[1].state = "failed"
    /\ exchanges[2].state = "pending"
    /\ tokenPromise = 2

\* C6: a call without forceRefresh that finds a cached token more than 60 s
\* before its expiry returns that token at once and changes neither the cache
\* nor the marker, and starts no exchange.
C6_FastPathFrame ==
    [][\A c \in Callers :
          ( /\ CallsGetAccessToken(c)
            /\ ~req'[c].force
            /\ Truthy(cachedAccessToken)
            /\ now < accessTokenExpiry - 60000 )
          => /\ req'[c].token = cachedAccessToken
             /\ req'[c].pc # "token"
             /\ req'[c].exch = 0
             /\ UNCHANGED cacheVars]_vars

\* a call was served from the cache one millisecond before the margin of a
\* 120 s token
C6_Witness ==
    \E c \in Callers :
        /\ req[c].fast
        /\ req[c].token = cachedAccessToken
        /\ now = 59999
        /\ accessTokenExpiry = 120000

\* C7: whenever getAccessToken hands a token to a caller, the clock is more
\* than 60 s before the recorded expiry.
C7_NeverWithinMargin ==
    [][\A c \in Callers :
          ReceivesToken(c) => now' < accessTokenExpiry' - 60000]_vars

\* C8: a call made at or after expiry - 60 s does not return the cached
\* token: it waits for an exchange that is in flight, started by it or by
\* another caller.
C8_RefreshAtMargin ==
    [][\A c \in Callers :
          ( /\ CallsGetAccessToken(c)
            /\ Truthy(cachedAccessToken)
            /\ now >= accessTokenExpiry - 60000 )
          => /\ ~req'[c].fast
             /\ req'[c].pc = "token"
             /\ req'[c].exch \in 1..Len(exchanges')
             /\ exchanges'[req'[c].exch].state = "pending"]_vars

\* a call made exactly 3540 s after an exchange that gave a 3600 s token
\* waits for a new exchange
C8_Witness ==
    \E c \in Callers :
        /\ req[c].pc = "token"
        /\ Truthy(cachedAccessToken)
        /\ accessTokenExpiry = 3600000
        /\ exchanges[req[c].exch].startedAt = 3540000

\* C9: a successful exchange caches the answer's access_token, and as expiry
\* the clock value read when the call began plus expires_in seconds, 3600
\* being used exactly when the answer has no expires_in.
C9_ExpiryFromAnswer ==
    [][\A e \in 1..Len(exchanges) :
          (exchanges[e].state = "pending" /\ exchanges'[e].state = "ok") =>
              /\ cachedAccessToken' =
                    (IF lastResponse'.hasToken THEN TokenName[e] ELSE "undefined")
              /\ accessTokenExpiry' = exchanges[e].startedAt +
                    (IF lastResponse'.hasExpiresIn THEN lastResponse'.expires_in
                     ELSE 3600) * 1000]_vars

\* the answers with error "Access Denied" whose description says too many
\* requests
RateLimitAnswers ==
    { r \in Responses :
        /\ r.kind = "http_error"
        /\ r.error = "Access Denied"
        /\ r.error_description \in
              { <<"too", "many", "requests">>,
                <<"You", "have", "made", "Too", "Many", "Requests", "continuously">> } }

\* C10: in ticketMessages a failed exchange fails the call with an error
\* tagged rateLimited, and the handler answers 429, exactly when the answer
\* is a rate-limit answer; after any other failure the handler answers 500.
C10_RateLimited ==
    [][\A c \in Callers :
          (handler = "ticketMessages" /\ req[c].pc = "token" /\ req'[c].failed) =>
              /\ req'[c].rateLimited = (lastResponse' \in RateLimitAnswers)
              /\ req'[c].via = "handler" =>
                    req'[c].status = IF lastResponse' \in RateLimitAnswers
                                     THEN 429 ELSE 500]_vars

\* the handler answered 429 after the mixed-case rate-limit answer
C10_Witness ==
    \E c \in Callers :
        /\ handler = "ticketMessages"
        /\ req[c].via = "handler"
        /\ req[c].status = 429
        /\ req[c].rateLimited
        /\ lastResponse.error_description =
              <<"You", "have", "made", "Too", "Many", "Requests", "continuously">>

\* C11: a failed OAuth exchange leaves the cache invalidated: once an exchange
\* has failed, cachedAccessToken is absent and accessTokenExpiry is 0.
C11_FailureClearsCache ==
    [][\A e \in 1..Len(exchanges) :
          (exchanges[e].state = "pending" /\ exchanges'[e].state = "failed") =>
              /\ cachedAccessToken' = "null"
              /\ accessTokenExpiry' = 0]_vars

\* Caller c's step in which the handler clears the cache and calls
\* getAccessToken again.
Refreshes(c) == req[c].pc = "update" /\ req'[c].retries > req[c].retries

\* C12: in both versions of addTicketResolution the handler clears the cache
\* and asks for a token again at most once per request, and only when the
\* resolution update has ended with status 401; an update that ends with any
\* other refusal, or with a second 401, ends the request: no exchange is
\* started, the cache is left alone and the update is not sent again.
C12_RefreshOnce ==
    /\ [](\A c \in Callers : req[c].retries <= 1)
    /\ [][\A c \in Callers :
            handler \in ResolutionHandlers =>
                /\ Refreshes(c) =>
                      /\ req[c].retries = 0
                      /\ req'[c].updateStatus = 401
                /\ (cachedAccessToken # "null" /\ cachedAccessToken' = "null") =>
                      \E d \in Callers : Refreshes(d)
                /\ (req[c].pc = "update" /\ req'[c].pc = "token") => Refreshes(c)
                /\ ( /\ req[c].pc = "update"
                     /\ req'[c].pc # "update"
                     /\ ~(req'[c].updateStatus = 401 /\ req[c].retries = 0) )
                   => /\ req'[c].pc = "done"
                      /\ UNCHANGED cacheVars
                /\ (req[c].pc = "update" /\ req'[c].pc = "update" /\ req'[c] # req[c]) =>
                      /\ req'[c].attempt = req[c].attempt + 1
                      /\ req'[c].retries = req[c].retries
                      /\ req'[c].token = req[c].token
                      /\ UNCHANGED cacheVars]_vars

\* a request whose repeated update was refused with 401 again ended there
C12_Witness ==
    \E c \in Callers :
        /\ handler \in ResolutionHandlers
        /\ req[c].pc = "done"
        /\ req[c].retries = 1
        /\ req[c].updateStatus = 401
        /\ req[c].status = 500

\* C13 as stated: a 401 answer to the first resolution update clears the
\* cache and starts a new exchange, the update is repeated with that
\* exchange's token, and the handler answers 200 when the repeated update
\* succeeds and an error naming the helpdesk's status when it does not.
C13_RetryOn401 ==
    [][\A c \in Callers : \A ans \in UpdateAnswers :
          (handler \in ResolutionHandlers /\ UpdateRespond(c, ans)) =>
              /\ (req[c].retries = 0 /\ ans.status = 401) =>
                    /\ cachedAccessToken' = "null"
                    /\ accessTokenExpiry' = 0
                    /\ Len(exchanges') = Len(exchanges) + 1
                    /\ req'[c].pc = "token"
                    /\ req'[c].exch = Len(exchanges')
              /\ (req[c].retries = 1 /\ ans.status = 200) =>
                    /\ req'[c].pc = "done"
                    /\ req'[c].status = 200
              /\ (req[c].retries = 1 /\ ans.status # 200 /\ req'[c].pc = "done") =>
                    /\ req'[c].status = 500
                    /\ req'[c].code = ans.status]_vars

\* The new exchange's token is the one the repeated update is sent with.
RepeatsWithNewToken ==
    \A c \in Callers :
        ( /\ handler \in ResolutionHandlers
          /\ req[c].pc = "token"
          /\ req[c].retries = 1
          /\ exchanges'[req[c].exch].state = "ok" )
        => /\ req'[c].pc = "update"
           /\ req'[c].attempt = 1
           /\ req'[c].token = TokenName[req[c].exch]
           /\ req'[c].token # req[c].token

\* C13, amended: the same, for answers whose body is empty or JSON (an
\* answer whose body JSON.parse refuses is thrown as an invalid response
\* before its status is looked at, and answered 500), the update being
\* repeated when the new exchange succeeds.
C13_RetryOn401Parsable ==
    [][/\ RepeatsWithNewToken
       /\ \A c \in Callers : \A ans \in UpdateAnswers :
            ( /\ handler \in ResolutionHandlers
              /\ UpdateRespond(c, ans)
              /\ ans.body # "invalid" ) =>
                /\ (req[c].retries = 0 /\ ans.status = 401) =>
                      /\ cachedAccessToken' = "null"
                      /\ accessTokenExpiry' = 0
                      /\ Len(exchanges') = Len(exchanges) + 1
                      /\ req'[c].pc = "token"
                      /\ req'[c].exch = Len(exchanges')
                /\ (req[c].retries = 1 /\ ans.status = 200) =>
                      /\ req'[c].pc = "done"
                      /\ req'[c].status = 200
                /\ (req[c].retries = 1 /\ ans.status # 200 /\ req'[c].pc = "done") =>
                      /\ req'[c].status = 500
                      /\ req'[c].code = ans.status]_vars

\* a request answered 200 after its update was refused with 401 and repeated
\* with the token of a second exchange
C13_Witness ==
    \E c \in Callers :
        /\ handler \in ResolutionHandlers
        /\ req[c].pc = "done"
        /\ req[c].retries = 1
        /\ req[c].status = 200
        /\ req[c].exch = 2
        /\ req[c].token = "T2"

\* A step in which the session endpoint answers a request.
Answers ==
    /\ handler = SessionEndpoint
    /\ session'.answer # session.answer
    /\ session'.answer # NoAnswer

\* A step in which the session endpoint answers a GET for `cookie`.
AnswersGet(cookie) ==
    /\ Answers
    /\ session'.answer.ev.method = "GET"
    /\ session'.answer.ev.cookie = cookie

\* The cookies a verification may be given.
Presented == Cookies(env) \cup {session.jar}

\* The claim's valid token: an expiry and a signature, the expiry a number
\* after the clock, the signature the digest of the expiry under the secret.
ValidSession(token, e, t) ==
    /\ token.segs >= 2
    /\ token.expStr # ""
    /\ ~NumberOf(token.expStr).nan
    /\ NumberOf(token.expStr).val > t
    /\ token.sig = Hmac(SecretOf(e), token.expStr)

\* C14: with a secret configured, verifyAuth of every protected handler and
\* verifyToken of the session endpoint accept a token exactly when its expiry
\* is a number in the future and its signature is the digest of the expiry
\* under the current secret.
C14_AcceptIff ==
    [][/\ \A c \in Callers : \A ev \in SessionEvents(env, session.jar) :
            (HasVerifyAuth(handler) /\ SecretOf(env) # <<>> /\ Request(c, ev)) =>
                (req'[c].authValid <=> ValidSession(ev.cookie, env, now))
       /\ \A cookie \in Presented :
            (Configured(env) /\ AnswersGet(cookie)) =>
                ((session'.answer.status = 200) <=> ValidSession(cookie, env, now))]_vars

\* The token was issued by generateToken under the secret of configuration e.
IssuedUnder(token, e) ==
    /\ token # NoCookie
    /\ SecretOf(e) # <<>>
    /\ token.sig = Sign(NumberOf(token.expStr).val, SecretOf(e))

\* C15: a token the session endpoint issued at t with TTL T, verified under
\* the secret it was issued with, is accepted at every clock value before
\* t + T and rejected at t + T and after.
C15_ValidUntilExpiry ==
    [][/\ \A c \in Callers : \A ev \in SessionEvents(env, session.jar) :
            ( /\ HasVerifyAuth(handler)
              /\ IssuedUnder(session.jar, env)
              /\ ev.cookie = session.jar
              /\ Request(c, ev) ) =>
                (req'[c].authValid <=> now < NumberOf(session.jar.expStr).val)
       /\ ( /\ Configured(env)
            /\ IssuedUnder(session.jar, env)
            /\ AnswersGet(session.jar) ) =>
                ((session'.answer.status = 200) <=>
                    now < NumberOf(session.jar.expStr).val)]_vars

Secrets == { <<"k", "0">>, <<"k", "1">>, <<"k", "2">>, <<"p", "w">> }

\* The token's signature is the digest of its expiry under key k.
SignedWith(token, k) == token.sig # <<>> /\ token.sig = Hmac(k, token.expStr)

\* C16: a token signed with a secret other than the current one is rejected
\* by verifyAuth and by verifyToken, expired or not.
C16_OtherSecretRejected ==
    [][\A k \in Secrets :
          k # SecretOf(env) =>
              /\ \A c \in Callers : \A ev \in SessionEvents(env, session.jar) :
                    (SignedWith(ev.cookie, k) /\ Request(c, ev)) =>
                        /\ ~req'[c].authValid
                        /\ HasVerifyAuth(handler) =>
                              (req'[c].pc = "done" /\ req'[c].status = 401)
              /\ \A cookie \in Presented :
                    (SignedWith(cookie, k) /\ AnswersGet(cookie)) =>
                        /\ session'.answer.status # 200
                        /\ Configured(env) => session'.answer.status = 401]_vars

\* the session endpoint refused the unexpired cookie it had issued under the
\* secret of an earlier configuration
C16_Witness ==
    /\ handler = SessionEndpoint
    /\ Configured(env)
    /\ session.jar # NoCookie
    /\ session.jar.sig[1] # SecretOf(env)
    /\ NumberOf(session.jar.expStr).val > now
    /\ session.answer.ev.method = "GET"
    /\ session.answer.ev.cookie = session.jar
    /\ session.answer.status = 401

\* The malformed tokens: none or empty, no '.', an empty expiry, an expiry
\* that is not a numeral, an empty signature.
Malformed(token) ==
    \/ token.segs <= 1
    \/ token.expStr = ""
    \/ token.expStr = "abc"
    \/ token.sig = <<>>

\* C17: verifyAuth and verifyToken reject every malformed token, whatever
\* its signature.
C17_MalformedRejected ==
    [][/\ \A c \in Callers : \A ev \in SessionEvents(env, session.jar) :
            (Malformed(ev.cookie) /\ Request(c, ev)) =>
                /\ ~req'[c].authValid
                /\ HasVerifyAuth(handler) =>
                      (req'[c].pc = "done" /\ req'[c].status = 401)
       /\ \A cookie \in Presented :
            (Malformed(cookie) /\ AnswersGet(cookie)) =>
                /\ session'.answer.status # 200
                /\ Configured(env) => session'.answer.status = 401]_vars

\* the session endpoint refused a token whose expiry is not a numeral and
\* whose signature is the digest of that text under the current secret
C17_Witness ==
    /\ handler = SessionEndpoint
    /\ Configured(env)
    /\ session.answer.ev.method = "GET"
    /\ session.answer.ev.cookie =
          [segs |-> 2, expStr |-> "abc", sig |-> <<SecretOf(env), "abc">>]
    /\ session.answer.status = 401

\* C18: with the configuration present, a POST whose body is JSON is answered
\* 200 with Set-Cookie exactly when the password is non-empty and equal to
\* PORTAL_PASSWORD, and 401 without Set-Cookie for every other text, shorter,
\* longer or of the same length.
C18_PasswordGate ==
    [][( /\ Answers
         /\ Configured(env)
         /\ session'.answer.ev.method = "POST"
         /\ session'.answer.ev.body.parsable ) =>
            LET password == session'.answer.ev.body.password IN
            IF password # <<>> /\ password = env.PORTAL_PASSWORD
            THEN /\ session'.answer.status = 200
                 /\ session'.answer.setCookie
                 /\ session'.jar # NoCookie
            ELSE /\ session'.answer.status = 401
                 /\ ~session'.answer.setCookie
                 /\ session'.jar = session.jar]_vars

\* a proper prefix of the password was answered 401 without a cookie
C18_Witness ==
    /\ handler = SessionEndpoint
    /\ env.PORTAL_PASSWORD = <<"p", "w">>
    /\ session.answer.ev.method = "POST"
    /\ session.answer.ev.body.password = <<"p">>
    /\ session.answer.status = 401
    /\ ~session.answer.setCookie

\* C19: the session endpoint's status is decided in this order: 500 without
\* a secret or without PORTAL_PASSWORD; for GET 200 or 401 as the cookie
\* verifies; 405 for a method other than POST; 400 for an unparsable body;
\* 401 for a wrong password; else 200 with Set-Cookie.
C19_StatusOrder ==
    [][Answers =>
          LET ev == session'.answer.ev
              expected ==
                  IF SecretOf(env) = <<>> \/ env.PORTAL_PASSWORD = <<>> THEN 500
                  ELSE IF ev.method = "GET"
                  THEN (IF VerifyToken(ev.cookie, SecretOf(env), now) THEN 200 ELSE 401)
                  ELSE IF ev.method # "POST" THEN 405
                  ELSE IF ~ev.body.parsable THEN 400
                  ELSE IF ev.body.password = <<>>
                          \/ ev.body.password # env.PORTAL_PASSWORD THEN 401
                  ELSE 200
          IN  /\ session'.answer.status = expected
              /\ session'.answer.setCookie <=> (expected = 200 /\ ev.method = "POST")]_vars

\* a DELETE with an unparsable body was answered 405, not 400
C19_Witness ==
    /\ handler = SessionEndpoint
    /\ Configured(env)
    /\ session.answer.ev.method = "DELETE"
    /\ ~session.answer.ev.body.parsable
    /\ session.answer.status = 405

\* C20: in the handlers that call verifyAuth, a request served without
\* AUTH_SECRET and without PORTAL_PASSWORD is answered with a 5xx status and
\* is not taken as authenticated.
C20_MissingSecretIs500 ==
    \A c \in Callers :
        (HasVerifyAuth(handler) /\ SecretOf(env) = <<>> /\ req[c].via = "handler") =>
            /\ req[c].pc = "done"
            /\ req[c].status >= 500
            /\ ~req[c].authValid
            /\ req[c].exch = 0
            /\ ~req[c].fast

----------------------------------------------------------------------------
\* The TTL the configuration asks for, in milliseconds: the configured hours
\* when they are a finite positive number ('1' is the one such spelling among
\* LoginEnvs), 24 hours otherwise.
ExpectedTtlMs(e) ==
    IF e.AUTH_TTL_HOURS = "1" THEN 3600000 ELSE 86400000

LoggedIn ==
    /\ Answers
    /\ session'.answer.ev.method = "POST"
    /\ session'.answer.status = 200

\* C21: a successful login issues a token whose expiresAt is the issue time
\* plus the TTL, in the cookie authToken=<token> with Path=/, HttpOnly, Secure,
\* SameSite=Lax and a Max-Age of the same TTL in seconds; the TTL is
\* AUTH_TTL_HOURS hours when that is a finite positive number and 24 hours
\* when it is missing, non-finite, zero or negative.
C21_LoginTtl ==
    [][ LoggedIn =>
          LET ttl == ExpectedTtlMs(env) IN
          /\ session'.answer.setCookie
          /\ session'.answer.name = "authToken"
          /\ session'.jar.segs = 2
          /\ session'.jar.expStr = StringOf(now + ttl)
          /\ NumberOf(session'.jar.expStr) =
                 [nan |-> FALSE, inf |-> FALSE, val |-> now + ttl]
          /\ session'.answer.maxAge * 1000 = ttl
          /\ session'.answer.attributes =
                 <<"Path=/", "HttpOnly", "Secure", "SameSite=Lax">> ]_vars

\* A login under AUTH_TTL_HOURS = '0' at 60000 has been answered with a
\* cookie of 24 hours.
C21_Witness ==
    /\ handler = SessionEndpoint
    /\ env.AUTH_TTL_HOURS = "0"
    /\ now = 60000
    /\ session.answer.ev.method = "POST"
    /\ session.answer.status = 200
    /\ session.answer.maxAge = 86400
    /\ session.jar.expStr = "86460000"

----------------------------------------------------------------------------
\* The TTLs of the configurations: one hour and the default of 24 hours.
IssueTtls == {3600000, 86400000}

\* C22: a token that generateToken made at t0 with the current secret, sent
\* back as the authToken cookie before t0 + TTL, is accepted by the session
\* endpoint's GET and by verifyAuth of every handler that has one.
C22_RoundTrip ==
    [][ \A t0 \in SessionInstants : \A ttl \in IssueTtls :
          LET token == GenerateToken(SecretOf(env), t0, ttl) IN
          /\ (Configured(env) /\ now < t0 + ttl /\ AnswersGet(token)) =>
                session'.answer.status = 200
          /\ \A c \in Callers : \A ev \in SessionEvents(env, session.jar) :
                ( /\ HasVerifyAuth(handler)
                  /\ SecretOf(env) # <<>>
                  /\ now < t0 + ttl
                  /\ ev.cookie = token
                  /\ Request(c, ev) ) =>
                    (req'[c].authValid /\ req'[c].status # 401) ]_vars

\* The session endpoint issued a cookie at 60000 and was sent it back one
\* millisecond before the hour: the GET was answered 200.
C22_Witness ==
    /\ handler = SessionEndpoint
    /\ now = 3599999
    /\ session.jar = GenerateToken(SecretOf(env), 60000, 3600000)
    /\ session.answer.ev.method = "GET"
    /\ session.answer.ev.cookie = session.jar
    /\ session.answer.status = 200

----------------------------------------------------------------------------
\* What the caller sees of a protected handler's response.
Visible(r) == [status |-> r.status, error |-> r.error, headers |-> r.headers]

\* Caller d has been refused by verifyAuth.
RefusedBefore(d) ==
    req[d].pc = "done" /\ req[d].via = "handler" /\ ~req[d].authValid

\* The session endpoint's last answer refused a GET.
RefusedGet(answer) == answer.ev.method = "GET" /\ answer.status = 401

\* C23: for one endpoint, every request that fails the session verification,
\* whatever the cookie it presented (none, malformed, expired, signed with
\* another key), is answered 401 with the same body and the same headers as
\* every other such request.
C23_UniformRefusal ==
    [][/\ \A c \in Callers : \A ev \in SessionEvents(env, session.jar) :
            (HasVerifyAuth(handler) /\ Request(c, ev) /\ ~req'[c].authValid) =>
                /\ req'[c].pc = "done"
                /\ req'[c].status = 401
                /\ req'[c].error = "Non authentifié"
                /\ \A d \in Callers :
                      RefusedBefore(d) => Visible(req'[c]) = Visible(req[d])
       /\ \A cookie \in Presented :
            (Configured(env) /\ AnswersGet(cookie) /\ session'.answer.status # 200) =>
                /\ session'.answer.status = 401
                /\ session'.answer.body = "Non authentifié"
                /\ session'.answer.headers = {"Content-Type: application/json"}
                /\ ~session'.answer.setCookie
                /\ RefusedGet(session.answer) =>
                      /\ session'.answer.body = session.answer.body
                      /\ session'.answer.headers = session.answer.headers]_vars

\* The session endpoint has refused the cookie it issued at 0 for one hour,
\* presented after the hour, as it refuses a request without a cookie.
C23_Witness ==
    /\ handler = SessionEndpoint
    /\ now = 3600001
    /\ session.jar = GenerateToken(SecretOf(env), 0, 3600000)
    /\ session.answer.ev.method = "GET"
    /\ session.answer.ev.cookie = session.jar
    /\ session.answer.status = 401
    /\ session.answer.body = "Non authentifié"

----------------------------------------------------------------------------
\* C24: when the helpdesk answers a handler's call with a status other than
\* success and the handler ends on that answer, the handler's response has
\* the helpdesk's status.
C24_DownstreamStatusCarried ==
    [][\A c \in Callers :
          /\ \A ans \in DownstreamAnswers :
                (DownstreamRespond(c, ans) /\ ans.status # 200 /\ req'[c].pc = "done") =>
                    req'[c].status = ans.status
          /\ \A ans \in GateUpdateAnswers :
                (UpdateRespond(c, ans) /\ ans.status # 200 /\ req'[c].pc = "done") =>
                    req'[c].status = ans.status]_vars

----------------------------------------------------------------------------
\* The request lacks what handler h needs from it: a read handler's id or
\* layoutId, a write handler's fields or a body that is JSON (tickets takes
\* no input; the write handlers are asked with POST).
BadInput(h, ev) ==
    IF h \in WriteHandlers
    THEN ev.method = "POST" /\ ev.input \in {"missing", "unparsable"}
    ELSE h # "tickets" /\ ev.input = "missing"

\* C25: a request that passes the session check and whose body or query lacks
\* a required field, or whose body is not JSON, is answered 400 by every
\* handler that takes input.
C25_BadInputIs400 ==
    [][\A c \in Callers : \A ev \in Events(env) :
          ( /\ Request(c, ev)
            /\ HasVerifyAuth(handler) => req'[c].authValid
            /\ BadInput(handler, ev) ) =>
              (req'[c].pc = "done" /\ req'[c].status = 400)]_vars

----------------------------------------------------------------------------
\* C26: every response of the attachment-upload and resolution-write handlers
\* has Access-Control-Allow-Origin set to the portal origin and
\* Access-Control-Allow-Credentials: true, and every response of the read
\* handlers has Access-Control-Allow-Origin: *, whatever the status.
C26_CorsOnEveryPath ==
    \A c \in Callers :
        (req[c].via = "handler" /\ req[c].pc = "done") =>
            IF handler \in {"uploadImage", "addTicketResolution",
                            "addTicketResolutionSimple"}
            THEN req[c].headers =
                    {"Access-Control-Allow-Origin: https://zohodeskclabots.netlify.app",
                     "Access-Control-Allow-Credentials: true"}
            ELSE req[c].headers = {"Access-Control-Allow-Origin: *"}

----------------------------------------------------------------------------
\* C27: no line a handler writes to the log contains the value of the
\* request's authToken cookie.
C27_NoTokenInLog ==
    \A c \in Callers :
        \A i \in 1..Len(req[c].log) : ~req[c].log[i].authToken

----------------------------------------------------------------------------
\* C28: once the OAuth call or a helpdesk call of a handler has failed, the
\* handler makes no further network call and answers with an error status;
\* the one exception is the new token asked for after the first 401 of the
\* resolution update.
C28_FailureEndsHandler ==
    [][\A c \in Callers :
          /\ \A ans \in DownstreamAnswers :
                (DownstreamRespond(c, ans) /\ ans.status # 200) =>
                    (req'[c].pc = "done" /\ req'[c].status >= 400)
          /\ \A ans \in GateUpdateAnswers :
                ( /\ UpdateRespond(c, ans)
                  /\ ans.status # 200
                  /\ ~(ans.status = 401 /\ req[c].retries = 0) ) =>
                    (req'[c].pc = "done" /\ req'[c].status >= 400)
          /\ \A e \in 1..Len(exchanges) : \A resp \in GateResponses :
                ( /\ Settle(e, resp)
                  /\ resp.kind # "ok"
                  /\ req[c].via = "handler"
                  /\ req[c].pc = "token"
                  /\ req[c].exch = e ) =>
                    (req'[c].pc = "done" /\ req'[c].status >= 400)]_vars

----------------------------------------------------------------------------
\* The session endpoint answers a POST whose body is JSON.
AnswersPost ==
    /\ Answers
    /\ session'.answer.ev.method = "POST"
    /\ session'.answer.ev.body.parsable

----------------------------------------------------------------------------
\* C30: in ticketMessages a call getAccessToken(true) does not take the
\* fast path, whatever the cache holds: it joins the exchange in flight, or
\* starts one when none is, and gets that exchange's outcome, its token or
\* its error.
C30_ForceSkipsFastPath ==
    [][\A c \in Callers :
          /\ DirectCall(c, TRUE) =>
                /\ ~req'[c].fast
                /\ req'[c].pc = "token"
                /\ IF tokenPromise # NoPromise
                   THEN /\ req'[c].exch = tokenPromise
                        /\ exchanges' = exchanges
                   ELSE /\ req'[c].exch = Len(exchanges) + 1
                        /\ Len(exchanges') = Len(exchanges) + 1
                        /\ exchanges'[Len(exchanges')].state = "pending"
          /\ \A e \in 1..Len(exchanges) : \A resp \in Responses :
                ( /\ Settle(e, resp)
                  /\ req[c].force
                  /\ req[c].pc = "token"
                  /\ req[c].exch = e ) =>
                    /\ ~req'[c].fast
                    /\ req'[c].pc = "done"
                    /\ IF resp.kind = "ok"
                       THEN /\ ~req'[c].failed
                            /\ req'[c].token =
                                  (IF resp.hasToken THEN TokenName[e] ELSE "undefined")
                       ELSE req'[c].failed]_vars

\* A forced call waits for the second exchange while the first exchange's
\* token is cached and more than the margin away from its expiry.
C30_Witness ==
    /\ handler = "ticketMessages"
    /\ Truthy(cachedAccessToken)
    /\ now < accessTokenExpiry - 60000
    /\ \E c \in Callers :
          /\ req[c].force
          /\ req[c].pc = "token"
          /\ req[c].exch = 2
          /\ exchanges[2].state = "pending"

----------------------------------------------------------------------------
\* The answer is a page that the loop pushes onto events.
PushedPage(ans) == ans.body = "array" /\ ans.status = 200

\* C31: the paginated ticketHistory ends after at most 15 history calls
\* whatever the helpdesk answers: the k-th call asks from = 1 + 50 (k - 1),
\* every answer either ends the handler or leaves one call fewer to make, and
\* the events of the 200 response are the pages in the order they were asked.
C31_BoundedPagination ==
    [][\A ans \in PageAnswers :
          DownstreamRespond(1, ans) =>
              /\ req[1].calls < 15
              /\ req[1].from = 1 + 50 * req[1].calls
              /\ req'[1].calls = req[1].calls + 1
              /\ req'[1].pc \in {"downstream", "done"}
              /\ req'[1].pc = "downstream" =>
                    /\ req'[1].calls < 15
                    /\ 15 - req'[1].calls = req'[1].safety
              /\ req'[1].events =
                    IF PushedPage(ans)
                    THEN Append(req[1].events,
                                [from |-> 1 + 50 * req[1].calls, count |-> ans.items])
                    ELSE req[1].events
              /\ (req'[1].pc = "done" /\ req'[1].status = 200) =>
                    req'[1].returned = req'[1].events]_vars

\* Fifteen full pages have been fetched and returned.
C31_Witness ==
    /\ handler = "ticketHistoryPaged"
    /\ req[1].pc = "done"
    /\ req[1].status = 200
    /\ req[1].calls = 15
    /\ Len(req[1].returned) = 15
    /\ \A i \in 1..15 :
          req[1].returned[i] = [from |-> 1 + 50 * (i - 1), count |-> 50]

----------------------------------------------------------------------------
\* The answer is a page of fewer than 50 items without the has-more flag.
LastPage(ans) == PushedPage(ans) /\ ans.items < 50 /\ ~ans.more

\* The short page ends the handler with 200 and every event collected.
StopsAtLastPage(ans) ==
    LastPage(ans) =>
        /\ req'[1].pc = "done"
        /\ req'[1].status = 200
        /\ req'[1].returned =
              Append(req[1].events, [from |-> req[1].from, count |-> ans.items])

----------------------------------------------------------------------------
\* The fallback lists of the claim, by payload shape: 1 the resolution
\* endpoint, 2 the ticket with a resolution object, 3 the ticket with a
\* resolution string.
ListedFallbacks(attempt) ==
    IF attempt = 1 THEN {400, 404, 405, 415}
    ELSE IF attempt = 2 THEN {400, 415}
    ELSE {}

\* What the answer ans to caller c's PUT of shape req[c].attempt leads to,
\* by its status.
FollowsStatus(c, ans) ==
    /\ req[c].attempt \in 1..3
    /\ ans.status = 200 =>
          /\ req'[c].pc = "done"
          /\ req'[c].status = 200
          /\ req'[c].attempt = req[c].attempt
    /\ (ans.status # 200 /\ ans.status \in ListedFallbacks(req[c].attempt)) =>
          /\ req'[c].pc = "update"
          /\ req'[c].attempt = req[c].attempt + 1
          /\ req'[c].retries = req[c].retries
    /\ (ans.status # 200 /\ ans.status \notin ListedFallbacks(req[c].attempt)) =>
          IF ans.status = 401 /\ req[c].retries = 0
          THEN /\ req'[c].retries = 1
               /\ req'[c].attempt = 1
               /\ req'[c].pc \in {"token", "update"}
          ELSE /\ req'[c].pc = "done"
               /\ req'[c].status = 500
               /\ req'[c].code = ans.status
               /\ req'[c].attempt = req[c].attempt

\* C33: sendResolutionUpdate sends its payload shapes in the order 1, 2, 3;
\* it goes to the next shape only after a status of the current shape's
\* fallback list, ends at the first success, sends at most 3 PUTs in one
\* invocation and hands back the first success or the last refusal.
C33_PayloadOrder ==
    [][\A c \in Callers : \A ans \in PayloadAnswers :
          UpdateRespond(c, ans) => FollowsStatus(c, ans)]_vars

\* C33 as the code has it: the above for answers whose body is empty or
\* JSON; an answer with another body makes sendResolutionUpdate throw, no
\* further PUT is sent in any shape and the handler answers 500.
C33_PayloadOrderParsable ==
    [][\A c \in Callers : \A ans \in PayloadAnswers :
          UpdateRespond(c, ans) =>
              IF ans.body = "json" THEN FollowsStatus(c, ans)
              ELSE /\ req'[c].pc = "done"
                   /\ req'[c].status = 500
                   /\ req'[c].attempt = req[c].attempt]_vars

\* The third shape was sent after two refusals of the fallback lists and was
\* refused too: its status is the one handed back.
C33_Witness ==
    /\ handler = "addTicketResolution"
    /\ \E c \in Callers :
          /\ req[c].pc = "done"
          /\ req[c].attempt = 3
          /\ req[c].retries = 0
          /\ req[c].status = 500
          /\ req[c].code = 400

\* C34: a getAccessToken call that succeeds gives a non-empty bearer token
\* and leaves one in the cache: no caller goes on to the helpdesk API (or is
\* handed a result) with an absent token, and an exchange that has just
\* succeeded leaves a non-empty token cached.
C34_SuccessGivesToken ==
    [][ /\ \A c \in Callers :
              (req'[c].pc \in {"downstream", "update"}
                  \/ (req'[c].pc = "done" /\ req'[c].via = "direct" /\ ~req'[c].failed))
              => Truthy(req'[c].token)
        /\ \A e \in 1..Len(exchanges) : \A resp \in Responses :
              (Settle(e, resp) /\ resp.kind = "ok") => Truthy(cachedAccessToken')
      ]_vars

\* C35: the explicit invalidation after a 401 discards only the token that
\* was refused: when the cache meanwhile holds another, usable token, the
\* answer to a caller's update neither changes the cache nor starts an OAuth
\* exchange.
C35_InvalidationSparesNewer ==
    [][ \A c \in Callers : \A ans \in UpdateAnswers :
          ( /\ UpdateRespond(c, ans)
            /\ TokenUsable(FALSE, cachedAccessToken, accessTokenExpiry, now)
            /\ cachedAccessToken # req[c].token )
          => /\ cachedAccessToken' = cachedAccessToken
             /\ accessTokenExpiry' = accessTokenExpiry
             /\ exchanges' = exchanges
      ]_vars

Blocks(text) == { text[i] : i \in 1..Len(text) }

\* C36: no feedback is lost: when two requests for the ticket have both
\* answered 200, the ticket's resolution holds the previous text and the
\* feedback of both.
C36_NoFeedbackLost ==
    \A c, d \in Callers :
        ( /\ c # d
          /\ req[c].pc = "done" /\ req[c].status = 200
          /\ req[d].pc = "done" /\ req[d].status = 200 )
        => ({c, d} \cup Blocks(PreviousResolution)) \subseteq Blocks(ticket.resolution)

\* C37: verifyToken and verifyAuth accept the same tokens: whatever cookie a
\* GET presents to the session endpoint, the endpoint finds the session valid
\* exactly when verifyAuth, with the same secret and clock, accepts the
\* cookie.
C37_SameVerdict ==
    [][ \A ev \in VerifyEvents(env, session.jar) :
          (AuthRequest(ev) /\ ev.method = "GET")
          => ( session'.answer.status = 200
               <=> VerifyAuth([cookie |-> ev.cookie, method |-> "GET", input |-> "ok"],
                              env, now) )
      ]_vars

\* C38: the session endpoint's handler is total: whatever the event, it
\* resolves with a response whose status is 200, 400, 401, 405 or 500, and
\* never ends with an exception.
C38_HandlerTotal ==
    session.answer.ev.method # "none"
    => /\ session.answer.status \in {200, 400, 401, 405, 500}
       /\ session.answer.body # Thrown.body

\* The entries of the response that stand for a listed conversation.
ConversationEntries(returned) == SelectSeq(returned, LAMBDA e : e.kind # "threads")

\* C39: the 200 response of ticketConversations has one entry for every
\* conversation of the list, in list order, each the fetched detail or the
\* listed entry; at most 3 detail calls are made for a conversation, and
\* none after its first success.
C39_EveryConversationAnswered ==
    \A c \in Callers :
        (handler = "ticketConversations" /\ req[c].pc = "done" /\ req[c].status = 200)
        => LET entries == ConversationEntries(req[c].returned) IN
           /\ Len(entries) = Len(req[c].list)
           /\ \A j \in 1..Len(entries) : entries[j].conv = j
           /\ \A j \in 1..Len(req[c].list) : req[c].tried[j] <= DetailCandidates

============================================================================
